---- MODULE Spec2Model ----
(***************************************************************************)
(* Email Finder (Raycast extension): the bounded search-history cache of   *)
(* history-storage.ts, the employee list screen of company-employees.tsx   *)
(* (search, load more, accumulation) and groupByDepartment.                *)
(***************************************************************************)
EXTENDS Integers, Sequences, FiniteSets, TLC

VARIABLES
    store,      \* LocalStorage: key -> raw item
    clock,      \* Date.now(), in milliseconds
    nops,       \* number of history operations performed so far
    last,       \* the last operation or event: its name, arguments, result
    \* EmployeeListView (company-employees.tsx 229-473)
    props,        \* initialDomain, companyInfo, autoSearch
    mounted,      \* the effects of the first render have run
    employees,    \* useState<Employee[]>([])
    isLoading,    \* useState(false)
    hasSearched,  \* useState(false)
    currentPage,  \* useState(0)
    totalPages,   \* useState(0)
    credits,      \* useState<number | null>(null)
    calls,        \* the searchCompany / loadMoreEmployees runs waiting at an await
    fetches,      \* the fetchCredits() promises not yet settled
    \* EmailFormView (email-finder.tsx) or EnrichedEmployeeView
    \* (company-employees.tsx 476-578)
    view          \* the lookup screen: its props, state, ref and pending calls

histVars == <<store, clock, nops, last>>

scrVars == <<props, mounted, employees, isLoading, hasSearched, currentPage,
             totalPages, credits, calls, fetches, view>>

vars == <<store, clock, nops, last, props, mounted, employees, isLoading,
          hasSearched, currentPage, totalPages, credits, calls, fetches, view>>

-----------------------------------------------------------------------------
(* Bounds of the model *)

MaxOps == 2       \* history operations per behaviour
MaxTicks == 1     \* clock advances per behaviour

-----------------------------------------------------------------------------
(* history-storage.ts : constants *)

STORAGE_KEY == "search-history"
COMPANY_STORAGE_KEY == "company-search-history"
MAX_ENTRIES == 100

Keys == {STORAGE_KEY, COMPANY_STORAGE_KEY}

(* The value of an absent optional property. *)
Undefined == "undefined"

(* The property the callers may pass as undefined (company-employees.tsx  *)
(* 309: logoUrl: company?.logoUrl).                                        *)
StringProps == {"logoUrl"}

(* Strings that the code inspects are sequences of characters. *)
DomainAcme == <<"a", ".", "i", "o">>
DomainPadded == <<" ", "a", ".", "i", "o">>
DomainBlank == <<" ">>
DomainEmpty == <<>>
NameAcme == <<"A", "c", "m", "e">>

-----------------------------------------------------------------------------
(* Helpers on sequences and objects *)

Min(a, b) == IF a < b THEN a ELSE b

(* Array.prototype.slice(0, n) *)
SliceBroken(s, n) == SubSeq(s, 1, Min(Len(s), n + 1))
Slice(s, n) == SubSeq(s, 1, Min(Len(s), n))

(* Object spread { ...a, ...b }: the properties of b override those of a. *)
Spread(a, b) ==
    [k \in (DOMAIN a) \cup (DOMAIN b) |-> IF k \in DOMAIN b THEN b[k] ELSE a[k]]

(* Date.prototype.toISOString(): a fixed-width rendering of the instant;   *)
(* modelled by the three decimal digits of the millisecond count.          *)
toISOString(t) == <<(t \div 100) % 10, (t \div 10) % 10, t % 10>>

(* new Date(iso).getTime() *)
getTime(iso) == iso[1] * 100 + iso[2] * 10 + iso[3]

(* The outcomes of Math.random() the model draws from. *)
Rands == {1, 2}

(* generateId(): `${Date.now()}-${Math.random().toString(36).slice(2, 9)}` *)
generateId(now, rnd) == <<now, rnd>>

(* JSON.stringify of one entry: properties whose value is undefined are    *)
(* omitted from the text.                                                  *)
IsUndefined(e, k) == k \in StringProps /\ e[k] = Undefined
stringifyEntry(e) ==
    IF \A p \in StringProps \cap DOMAIN e : ~IsUndefined(e, p) THEN e
    ELSE [k \in {p \in DOMAIN e : ~IsUndefined(e, p)} |-> e[k]]

(* JSON.stringify(entries) *)
stringify(entries) ==
    [kind |-> "json", items |-> [i \in 1..Len(entries) |-> stringifyEntry(entries[i])]]

Missing == [kind |-> "missing"]
Corrupt == [kind |-> "corrupt"]

(* A stored text that parses as JSON but not to an array, such as {} or    *)
(* null.                                                                   *)
NotAnArray == [kind |-> "object"]

-----------------------------------------------------------------------------
(* history-storage.ts : load and save *)

(* loadSearchHistory / loadCompanySearchHistory on a raw item: a missing   *)
(* item gives [], a text that does not parse gives [].                     *)
parseHistory(raw) ==
    IF raw.kind = "missing" THEN <<>>
    ELSE IF raw.kind = "corrupt" THEN <<>>
    ELSE IF raw.kind = "object" THEN raw
    ELSE raw.items

loadSearchHistory == parseHistory(store[STORAGE_KEY])
loadCompanySearchHistory == parseHistory(store[COMPANY_STORAGE_KEY])

loadHistory(key) == parseHistory(store[key])

(* The loaded value is not an array: spreading it, or calling filter or    *)
(* map on it, throws a TypeError.                                          *)
Throws(key) == store[key].kind = "object"

(* The type tag addSearchHistoryEntry / addCompanySearchHistoryEntry set. *)
TypeOf(key) == IF key = STORAGE_KEY THEN "email" ELSE "company"

-----------------------------------------------------------------------------
(* Inputs of the history operations *)

(* Entries as the callers build them (company-employees.tsx 305-313,       *)
(* 525-532, 542-548): no id, no createdAt, no type.                        *)
EmailInputs ==
    { [firstName |-> "Ada", lastName |-> "Byron", domain |-> DomainAcme,
       status |-> "success", email |-> "ada@a.io", enrichedData |-> "data"],
      [firstName |-> "Ada", lastName |-> "Byron", domain |-> DomainAcme,
       status |-> "error", error |-> <<"No email found for this person">>] }

CompanyInputs ==
    { [companyName |-> NameAcme, domain |-> DomainAcme, confidenceScore |-> 90,
       logoUrl |-> "logo.png", employees |-> <<"a", "b">>,
       totalPages |-> 2, currentPage |-> 1],
      [companyName |-> DomainAcme, domain |-> DomainAcme, confidenceScore |-> 100,
       logoUrl |-> Undefined, employees |-> <<"a">>,
       totalPages |-> 1, currentPage |-> 1] }

InputsOf(key) == IF key = STORAGE_KEY THEN EmailInputs ELSE CompanyInputs

(* Partial field sets given to updateCompanySearchHistoryEntry. *)
UpdateInputs ==
    { [employees |-> <<"a", "b", "c">>, currentPage |-> 2],
      [companyName |-> DomainAcme, logoUrl |-> Undefined] }

(* The clock reading when the model starts: the stored entries are older. *)
ClockStart == MAX_ENTRIES

(* A log as n earlier adds left it, one add per millisecond, the newest    *)
(* entry first. The oldest email entry is a legacy one, stored without a   *)
(* type by an earlier version (history-storage.ts 164).                    *)
PastInput(key, t) ==
    CHOOSE e \in InputsOf(key) :
        IF key = STORAGE_KEY THEN (e.status = "success") = (t % 2 = 0)
        ELSE (e.logoUrl = Undefined) = (t % 2 = 0)

PastEntry(key, t) ==
    LET full == stringifyEntry(Spread(PastInput(key, t),
                    [type |-> TypeOf(key), id |-> generateId(t, 1),
                     createdAt |-> toISOString(t)]))
    IN  IF key = STORAGE_KEY /\ t = 1
        THEN [k \in (DOMAIN full) \ {"type"} |-> full[k]]
        ELSE full

PastLog(key, n) == [kind |-> "json", items |-> [i \in 1..n |-> PastEntry(key, n - i + 1)]]

(* Lengths of the stored logs the model starts from. *)
ShortLens == {0, 2}
LongLens == {MAX_ENTRIES - 1, MAX_ENTRIES}

RawItems(key, lens) == {PastLog(key, n) : n \in lens}

(* What one item of the store can hold when the model starts: nothing, a  *)
(* text that does not parse, or a stored log.                              *)
ShortItems(key) == {Missing, Corrupt} \cup RawItems(key, ShortLens)
LongItems(key) == RawItems(key, LongLens)

(* The stores with two short logs. *)
InitStores ==
    { s \in [Keys -> UNION {ShortItems(k) : k \in Keys}] :
        \A k \in Keys : s[k] \in ShortItems(k) }

(* The stores with one log at or next to its cap and the other short. *)
CapStores ==
    { s \in [Keys -> UNION {ShortItems(k) \cup LongItems(k) : k \in Keys}] :
        \E k \in Keys : /\ s[k] \in LongItems(k)
                        /\ \A o \in Keys \ {k} : s[o] \in {Missing, PastLog(o, 2)} }

(* An id that no entry carries. *)
AbsentId == <<0, 0>>

(* The ids a caller can name: those of the first and last stored entries   *)
(* and one that is absent.                                                 *)
IdsToName(key) ==
    LET es == loadHistory(key) IN
    {AbsentId} \cup (IF Throws(key) \/ es = <<>> THEN {} ELSE {es[1].id, es[Len(es)].id})

-----------------------------------------------------------------------------
(* history-storage.ts : the operations *)

(* The entry add builds: { ...entry, type, id: generateId(), createdAt }. *)
NewEntry(key, entry, rnd) ==
    Spread(entry, [type |-> TypeOf(key), id |-> generateId(clock, rnd),
                   createdAt |-> toISOString(clock)])

(* [newEntry, ...entries].slice(0, MAX_ENTRIES) *)
PrependedAppends(newEntry, entries) == Slice(entries \o <<newEntry>>, MAX_ENTRIES)
Prepended(newEntry, entries) == Slice(<<newEntry>> \o entries, MAX_ENTRIES)

(* The store after an add: load, prepend, slice, save. *)
StoreAfterAdd(key, entry, rnd) ==
    LET entries == loadHistory(key)
        newEntry == NewEntry(key, entry, rnd)
        updated == Prepended(newEntry, entries)
    IN  [store EXCEPT ![key] = stringify(updated)]

AddEntry(key, entry, rnd) ==
    /\ nops < MaxOps
    /\ IF Throws(key)
       THEN /\ store' = store
            /\ last' = [op |-> "add", key |-> key, failed |-> TRUE]
       ELSE /\ store' = StoreAfterAdd(key, entry, rnd)
            /\ last' = [op |-> "add", key |-> key, ret |-> NewEntry(key, entry, rnd),
                        before |-> Len(loadHistory(key))]
    /\ nops' = nops + 1
    /\ UNCHANGED <<clock, scrVars>>

addSearchHistoryEntry ==
    \E entry \in EmailInputs, rnd \in Rands : AddEntry(STORAGE_KEY, entry, rnd)

addCompanySearchHistoryEntry ==
    \E entry \in CompanyInputs, rnd \in Rands :
        AddEntry(COMPANY_STORAGE_KEY, entry, rnd)

WithoutHead(entries, id) == IF entries = <<>> THEN <<>> ELSE Tail(entries)

(* entries.filter((e) => e.id !== id) *)
WithoutId(entries, id) == LET keep(e) == e.id # id IN SelectSeq(entries, keep)

RemoveEntry(key, id) ==
    LET entries == loadHistory(key)
        updated == WithoutId(entries, id)
    IN  /\ nops < MaxOps
        /\ IF Throws(key)
           THEN /\ store' = store
                /\ last' = [op |-> "remove", key |-> key, failed |-> TRUE]
           ELSE /\ store' = [store EXCEPT ![key] = stringify(updated)]
                /\ last' = [op |-> "remove", key |-> key, id |-> id, before |-> entries]
        /\ nops' = nops + 1
        /\ UNCHANGED <<clock, scrVars>>

removeSearchHistoryEntry ==
    \E id \in IdsToName(STORAGE_KEY) : RemoveEntry(STORAGE_KEY, id)

removeCompanySearchHistoryEntry ==
    \E id \in IdsToName(COMPANY_STORAGE_KEY) : RemoveEntry(COMPANY_STORAGE_KEY, id)

ClearAll(key) ==
    /\ nops < MaxOps
    /\ store' = [k \in Keys |-> Missing]
    /\ last' = [op |-> "clear", key |-> key,
                before |-> IF Throws(key) THEN 0 ELSE Len(loadHistory(key))]
    /\ nops' = nops + 1
    /\ UNCHANGED <<clock, scrVars>>

(* LocalStorage.removeItem(key) *)
ClearKey(key) ==
    /\ nops < MaxOps
    /\ store' = [store EXCEPT ![key] = Missing]
    /\ last' = [op |-> "clear", key |-> key,
                before |-> IF Throws(key) THEN 0 ELSE Len(loadHistory(key))]
    /\ nops' = nops + 1
    /\ UNCHANGED <<clock, scrVars>>

clearSearchHistory == ClearKey(STORAGE_KEY)
clearCompanySearchHistory == ClearKey(COMPANY_STORAGE_KEY)

Replaced(entries, id, updates) ==
    [i \in 1..Len(entries) |-> IF entries[i].id = id THEN updates ELSE entries[i]]

(* entries.map((e) => (e.id === id ? { ...e, ...updates } : e)) *)
Updated(entries, id, updates) ==
    [i \in 1..Len(entries) |->
        IF entries[i].id = id THEN Spread(entries[i], updates) ELSE entries[i]]

updateCompanySearchHistoryEntry ==
    \E id \in IdsToName(COMPANY_STORAGE_KEY), updates \in UpdateInputs :
        LET entries == loadCompanySearchHistory
            updated == Updated(entries, id, updates)
        IN  /\ nops < MaxOps
            /\ IF Throws(COMPANY_STORAGE_KEY)
               THEN /\ store' = store
                    /\ last' = [op |-> "update", key |-> COMPANY_STORAGE_KEY, failed |-> TRUE]
               ELSE /\ store' = [store EXCEPT ![COMPANY_STORAGE_KEY] = stringify(updated)]
                    /\ last' = [op |-> "update", key |-> COMPANY_STORAGE_KEY, id |-> id,
                                updates |-> updates, before |-> entries]
            /\ nops' = nops + 1
            /\ UNCHANGED <<clock, scrVars>>

(* The comparator of loadAllHistory's sort. *)
ByCreatedAtAsc(a, b) == getTime(a.createdAt) - getTime(b.createdAt)
ByCreatedAtDesc(a, b) == getTime(b.createdAt) - getTime(a.createdAt)

(* Array.prototype.sort with that comparator: a stable sort, here by       *)
(* insertion; x goes behind every element that does not compare after it.  *)
RECURSIVE InsertSorted(_, _)
InsertSorted(sorted, x) ==
    IF sorted = <<>> THEN <<x>>
    ELSE IF ByCreatedAtDesc(sorted[Len(sorted)], x) <= 0 THEN Append(sorted, x)
    ELSE Append(InsertSorted(SubSeq(sorted, 1, Len(sorted) - 1), x),
                sorted[Len(sorted)])

RECURSIVE SortFrom(_, _, _)
SortFrom(sorted, s, i) ==
    IF i > Len(s) THEN sorted ELSE SortFrom(InsertSorted(sorted, s[i]), s, i + 1)

Sorted(s) == SortFrom(<<>>, s, 1)

(* emailEntries.map((e) => ({ ...e, type: "email" })) *)
TypedDropped(emailEntries) == emailEntries
Typed(emailEntries) ==
    [i \in 1..Len(emailEntries) |-> Spread(emailEntries[i], [type |-> "email"])]

loadAllHistoryResult == Sorted(Typed(loadSearchHistory) \o loadCompanySearchHistory)

loadAllHistory ==
    /\ nops < MaxOps
    /\ last' = IF \E key \in Keys : Throws(key)
               THEN [op |-> "loadAll", failed |-> TRUE]
               ELSE [op |-> "loadAll", ret |-> loadAllHistoryResult]
    /\ nops' = nops + 1
    /\ UNCHANGED <<store, clock, scrVars>>

(* Time passes between two operations. *)
Tick ==
    /\ clock < ClockStart + MaxTicks
    /\ clock' = clock + 1
    /\ UNCHANGED <<store, nops, last, scrVars>>

-----------------------------------------------------------------------------
(* backend.ts : searchPerson *)

Has(obj, k) == k \in DOMAIN obj

(* The decimal rendering of a small number inside a template string. *)
NumStr(n) == <<"0", "1", "2", "3", "4", "5", "6", "7", "8", "9">>[n + 1]

(* isInsufficientCreditsError(data) *)
isInsufficientCreditsError(data) ==
    Has(data, "error_code") /\ data.error_code = "INSUFFICIENT_CREDITS"

(* response.ok *)
IsOk(status) == status >= 200 /\ status <= 299

(* The message of the SyntaxError response.json() rejects with. *)
JsonSyntaxError == <<"Unexpected token < in JSON at position 0">>

(* What enrichPerson makes of the server's reply (backend.ts 181-195). A   *)
(* reply without a body is one whose body does not parse as JSON.          *)
enrichPerson(reply) ==
    IF reply.kind = "transport"
    THEN [ok |-> FALSE, message |-> <<"fetch failed">>]
    ELSE IF ~Has(reply, "body")
    THEN [ok |-> FALSE, message |-> JsonSyntaxError]
    ELSE IF reply.status = 402 /\ isInsufficientCreditsError(reply.body)
    THEN [ok |-> FALSE,
          message |-> <<"Insufficient credits. You have ", NumStr(reply.body.balance),
                        " credits remaining.">>]
    ELSE IF ~IsOk(reply.status) \/ (Has(reply.body, "error") /\ reply.body.error)
    THEN [ok |-> FALSE,
          message |-> IF Has(reply.body, "message") /\ reply.body.message # <<>>
                      THEN reply.body.message ELSE <<"Failed to enrich person">>]
    ELSE [ok |-> TRUE, data |-> reply.body]

(* What searchPerson makes of the server's reply: an Error it throws or    *)
(* the body it returns (backend.ts 262-274).                               *)
searchPerson(reply) ==
    IF reply.kind = "transport"
    THEN [ok |-> FALSE, message |-> <<"fetch failed">>]
    ELSE IF ~Has(reply, "body")
    THEN [ok |-> FALSE, message |-> JsonSyntaxError]
    ELSE IF reply.status = 402 /\ isInsufficientCreditsError(reply.body)
    THEN [ok |-> FALSE,
          message |-> <<"Insufficient credits. You have ", NumStr(reply.body.balance),
                        " credits remaining.">>]
    ELSE IF ~IsOk(reply.status) \/ (Has(reply.body, "error") /\ reply.body.error)
    THEN [ok |-> FALSE,
          message |-> IF Has(reply.body, "message") /\ reply.body.message # <<>>
                      THEN reply.body.message ELSE <<"Failed to search people">>]
    ELSE [ok |-> TRUE, data |-> reply.body]

-----------------------------------------------------------------------------
(* The server's replies to a person search *)

MaxPage == 2      \* page numbers and page counts the server reports

Job(current, title, seniority) ==
    [current |-> current, title |-> title, seniority |-> seniority]

(* People as the search returns them. *)
PersonA ==
    [person_id |-> "a", full_name |-> "Ann A", current_job_title |-> "CEO",
     job_history |-> <<Spread(Job(TRUE, "Chief", "c_suite"),
                              [departments |-> <<"Sales", "Marketing">>])>>]
PersonB == [person_id |-> "b", full_name |-> "Bob B"]
PersonC ==
    [person_id |-> "c", full_name |-> "Cy C",
     job_history |-> <<Spread(Job(FALSE, "Intern", "entry"), [departments |-> <<"Zeta">>]),
                       Job(TRUE, "Engineer", "senior")>>]

Item(person) == [person |-> person]

ResultPages ==
    { <<>>,
      <<Item(PersonA), Item(PersonB)>>,
      <<Item(PersonB), Item(PersonC)>>,
      <<Item(PersonC), Item(PersonC)>> }

(* The balances a reply carries and those fetchCredits() resolves to. *)
ReplyBalances == {3}
Balances == {0, 3}

Paginations == [page : 1..MaxPage, total_pages : 1..MaxPage]

(* The bodies of success replies: balance, results and pagination are each *)
(* present or absent.                                                      *)
SuccessBodies ==
    { Spread(Spread(b, r), g) :
        b \in {<<>>} \cup {[balance |-> n] : n \in ReplyBalances},
        r \in {<<>>} \cup {[results |-> pg] : pg \in ResultPages},
        g \in {<<>>} \cup {[pagination |-> pn] : pn \in Paginations} }

SearchReplies ==
    {[kind |-> "http", status |-> 200, body |-> b] : b \in SuccessBodies}
    \cup
    { [kind |-> "transport"],
      [kind |-> "http", status |-> 402,
       body |-> [error |-> TRUE, error_code |-> "INSUFFICIENT_CREDITS",
                 message |-> <<"Insufficient credits">>, balance |-> 3]],
      [kind |-> "http", status |-> 500,
       body |-> [error |-> TRUE, message |-> <<"Server error">>]],
      [kind |-> "http", status |-> 200, body |-> [error |-> TRUE]] }

-----------------------------------------------------------------------------
(* company-employees.tsx : mapSearchResponseToEmployees *)

CurrentJobFirst(person) ==
    IF ~Has(person, "job_history") \/ person.job_history = <<>> THEN <<>>
    ELSE <<person.job_history[1]>>

(* person.job_history?.find((job) => job.current), as a list of 0 or 1 job *)
CurrentJob(person) ==
    IF ~Has(person, "job_history") THEN <<>>
    ELSE LET jh == person.job_history
             cur == {i \in 1..Len(jh) : jh[i].current}
         IN  IF cur = {} THEN <<>>
             ELSE <<jh[CHOOSE i \in cur : \A j \in cur : i <= j]>>

MapPerson(person) ==
    LET currentJob == CurrentJob(person)
        departments ==
            IF currentJob # <<>> /\ Has(currentJob[1], "departments")
            THEN currentJob[1].departments ELSE <<>>
    IN  [id |-> person.person_id,
         fullName |-> person.full_name,
         jobTitle |->
            IF Has(person, "current_job_title") /\ person.current_job_title # ""
            THEN person.current_job_title
            ELSE IF currentJob # <<>> /\ currentJob[1].title # ""
            THEN currentJob[1].title ELSE "",
         departments |-> IF Len(departments) > 0 THEN departments ELSE <<"Other">>,
         seniority |-> IF currentJob # <<>> THEN currentJob[1].seniority ELSE Undefined]

mapSearchResponseToEmployees(response) ==
    IF ~Has(response, "results") \/ Len(response.results) = 0 THEN <<>>
    ELSE [i \in 1..Len(response.results) |-> MapPerson(response.results[i].person)]

-----------------------------------------------------------------------------
(* company-employees.tsx : mapEnrichResponseToData, and its copy           *)
(* mapResponseToEnrichedData of the email form. The result is <<>> for     *)
(* null and <<data>> for a record.                                         *)

HasEmailRecord(response) ==
    /\ Has(response, "person")
    /\ Has(response.person, "email")
    /\ Has(response.person.email, "email")

(* response.person?.email?.email is truthy *)
HasEmail(response) ==
    /\ Has(response, "person")
    /\ Has(response.person, "email")
    /\ Has(response.person.email, "email")
    /\ response.person.email.email # <<>>

CompanyOrPresent(response, k, dflt) ==
    IF Has(response, "company") /\ Has(response.company, k)
    THEN response.company[k] ELSE dflt

(* response.company?.[k] || dflt *)
CompanyOr(response, k, dflt) ==
    IF Has(response, "company") /\ Has(response.company, k) /\ response.company[k] # <<>>
    THEN response.company[k] ELSE dflt

Https == <<"h", "t", "t", "p", "s", ":", "/", "/">>

mapEnrichResponseToData(response, domain) ==
    IF ~HasEmail(response) THEN <<>>
    ELSE << [person |->
               [full_name |-> IF Has(response.person, "full_name")
                              THEN response.person.full_name ELSE Undefined,
                email |-> [status |-> response.person.email.status,
                           email |-> response.person.email.email]],
             company |->
               [name |-> CompanyOr(response, "name", domain),
                website |-> CompanyOr(response, "website", Https \o domain),
                domain |-> CompanyOr(response, "domain", domain),
                industry |-> CompanyOr(response, "industry", <<>>)]] >>

mapResponseToEnrichedData(response, domain) ==
    IF ~HasEmail(response) THEN <<>>
    ELSE << [person |->
               [full_name |-> IF Has(response.person, "full_name")
                              THEN response.person.full_name ELSE Undefined,
                email |-> [status |-> response.person.email.status,
                           email |-> response.person.email.email]],
             company |->
               [name |-> CompanyOr(response, "name", domain),
                website |-> CompanyOr(response, "website", Https \o domain),
                domain |-> CompanyOr(response, "domain", domain),
                industry |-> CompanyOr(response, "industry", <<>>)]] >>

-----------------------------------------------------------------------------
(* company-employees.tsx : EmployeeListView *)

MaxFetches == 2   \* fetchCredits() promises outstanding at once

(* String.prototype.trim() *)
trimNothing(str) == str

RECURSIVE TrimStart(_)
TrimStart(str) ==
    IF str # <<>> /\ Head(str) = " " THEN TrimStart(Tail(str)) ELSE str

RECURSIVE TrimEnd(_)
TrimEnd(str) ==
    IF str # <<>> /\ str[Len(str)] = " "
    THEN TrimEnd(SubSeq(str, 1, Len(str) - 1)) ELSE str

trim(str) == TrimEnd(TrimStart(str))

(* The props the three call sites pass (company-employees.tsx 164, 178,    *)
(* 214): a domain from the command argument, the autocomplete or the form, *)
(* with or without the company picked in the autocomplete.                 *)
NoCompany == <<>>
PickedCompany == <<[name |-> NameAcme, logoUrl |-> Undefined, confidenceScore |-> 90]>>

Props(initialDomain, companyInfo) ==
    [initialDomain |-> initialDomain, companyInfo |-> companyInfo, autoSearch |-> TRUE]

PropsChoices ==
    { Props(DomainAcme, NoCompany), Props(DomainPadded, PickedCompany),
      Props(DomainBlank, NoCompany), Props(DomainEmpty, PickedCompany) }

RemoveAt(s, i) == SubSeq(s, 1, i - 1) \o SubSeq(s, i + 1, Len(s))

(* The first page a fresh search asks for (searchPerson(searchDomain, 1)). *)
FirstPage == 1

(* searchCompany up to its first await (262-280). A run keeps the state    *)
(* values of the render that started it (employees, currentPage).          *)
searchCompany(searchDomain, company) ==
    IF trim(searchDomain) = <<>>
    THEN /\ last' = [op |-> "searchCompany", issued |-> FALSE]
         /\ UNCHANGED <<employees, isLoading, hasSearched, currentPage, totalPages, calls>>
    ELSE /\ isLoading' = TRUE
         /\ employees' = <<>>
         /\ hasSearched' = TRUE
         /\ currentPage' = 0
         /\ totalPages' = 0
         /\ calls' = Append(calls, [fn |-> "searchCompany", stage |-> "fetch",
                                    domain |-> searchDomain, page |-> FirstPage,
                                    company |-> company,
                                    employees |-> employees,
                                    currentPage |-> currentPage])
         /\ last' = [op |-> "searchCompany", issued |-> TRUE]

(* The first commit: both mount effects run (248-260). *)
Mount ==
    /\ ~mounted
    /\ mounted' = TRUE
    /\ fetches' = Append(fetches, "mount")
    /\ IF props.autoSearch /\ ~hasSearched /\ ~isLoading
       THEN searchCompany(props.initialDomain, props.companyInfo)
       ELSE /\ last' = [op |-> "mount"]
            /\ UNCHANGED <<employees, isLoading, hasSearched, currentPage, totalPages, calls>>
    /\ UNCHANGED <<store, clock, nops, props, view, credits>>

(* typeof response.balance === "number" ? setCredits(response.balance) *)
CreditsAfter(response) ==
    IF Has(response, "balance") THEN <<response.balance>> ELSE credits

(* response.pagination?.page ?? dflt *)
PageOr(response, dflt) ==
    IF Has(response, "pagination") THEN response.pagination.page ELSE dflt

(* response.pagination?.total_pages ?? dflt *)
TotalPagesOr(response, dflt) ==
    IF Has(response, "pagination") THEN response.pagination.total_pages ELSE dflt

(* The entry searchCompany hands to addCompanySearchHistoryEntry (305-313) *)
CompanyEntry(call, response, mappedEmployees) ==
    LET company == call.company IN
    [companyName |-> IF company # <<>> /\ company[1].name # <<>>
                     THEN company[1].name ELSE call.domain,
     domain |-> call.domain,
     confidenceScore |-> IF company # <<>> THEN company[1].confidenceScore ELSE 100,
     logoUrl |-> IF company # <<>> THEN company[1].logoUrl ELSE Undefined,
     employees |-> mappedEmployees,
     totalPages |-> TotalPagesOr(response, 1),
     currentPage |-> PageOr(response, 1)]

(* catch: the toast, then fetchCredits().then(setCredits).catch(() => {}); *)
(* finally: setIsLoading(false).                                           *)
FailedWith(i, message, op, employeesAfter) ==
    /\ Len(fetches) < MaxFetches
    /\ fetches' = Append(fetches, "refresh")
    /\ isLoading' = FALSE
    /\ calls' = RemoveAt(calls, i)
    /\ last' = [op |-> op, ok |-> FALSE, message |-> message]
    /\ employees' = employeesAfter
    /\ UNCHANGED <<currentPage, totalPages, credits, hasSearched>>

FailedClearing(i, message, op) == FailedWith(i, message, op, <<>>)
Failed(i, message, op) == FailedWith(i, message, op, employees)

(* searchCompany from the reply to its next await or its end (280-333). *)
SearchResponded ==
    \E i \in 1..Len(calls), reply \in SearchReplies :
        LET call == calls[i]
            outcome == searchPerson(reply)
        IN  /\ call.fn = "searchCompany" /\ call.stage = "fetch"
            /\ IF ~outcome.ok
               THEN Failed(i, outcome.message, "searchResponded")
               ELSE LET response == outcome.data
                        mappedEmployees == mapSearchResponseToEmployees(response)
                    IN  /\ credits' = CreditsAfter(response)
                        /\ employees' = mappedEmployees
                        /\ currentPage' = PageOr(response, 1)
                        /\ totalPages' = TotalPagesOr(response, 0)
                        /\ IF Len(mappedEmployees) > 0
                           THEN /\ calls' = [calls EXCEPT ![i] =
                                       [fn |-> "searchCompany", stage |-> "save",
                                        entry |-> CompanyEntry(call, response,
                                                               mappedEmployees)]]
                                /\ UNCHANGED isLoading
                           ELSE /\ calls' = RemoveAt(calls, i)
                                /\ isLoading' = FALSE
                        /\ last' = [op |-> "searchResponded", ok |-> TRUE,
                                    response |-> response]
                        /\ UNCHANGED <<fetches, hasSearched>>
            /\ UNCHANGED <<store, clock, nops, props, view, mounted>>

(* searchCompany finishing without the write of 305-313. *)
SearchSavedNothing ==
    \E i \in 1..Len(calls) :
        /\ calls[i].fn = "searchCompany" /\ calls[i].stage = "save"
        /\ isLoading' = FALSE
        /\ calls' = RemoveAt(calls, i)
        /\ last' = [op |-> "searchSaved", ret |-> calls[i].entry]
        /\ UNCHANGED <<store, clock, nops, props, view, mounted, employees, hasSearched,
                       currentPage, totalPages, credits, fetches>>

(* searchCompany after await addCompanySearchHistoryEntry (305-333). *)
SearchSaved ==
    \E i \in 1..Len(calls), rnd \in Rands :
        /\ calls[i].fn = "searchCompany" /\ calls[i].stage = "save"
        /\ store' = StoreAfterAdd(COMPANY_STORAGE_KEY, calls[i].entry, rnd)
        /\ isLoading' = FALSE
        /\ calls' = RemoveAt(calls, i)
        /\ last' = [op |-> "searchSaved",
                    ret |-> NewEntry(COMPANY_STORAGE_KEY, calls[i].entry, rnd)]
        /\ UNCHANGED <<clock, nops, props, view, mounted, employees, hasSearched,
                       currentPage, totalPages, credits, fetches>>

(* if (currentPage >= totalPages || isLoading) return; *)
LoadMoreRefusedLoose == currentPage >= totalPages
LoadMoreRefused == currentPage >= totalPages \/ isLoading

(* The list shows the "Load More" item (385, 456), whose action calls      *)
(* loadMoreEmployees.                                                      *)
LoadMoreOffered == hasSearched /\ Len(employees) > 0 /\ currentPage < totalPages

(* loadMoreEmployees up to its await (336-343). *)
loadMoreEmployees ==
    /\ mounted
    /\ LoadMoreOffered
    /\ IF LoadMoreRefused
       THEN /\ last' = [op |-> "loadMore", issued |-> FALSE]
            /\ UNCHANGED <<isLoading, calls>>
       ELSE /\ isLoading' = TRUE
            /\ calls' = Append(calls, [fn |-> "loadMoreEmployees", stage |-> "fetch",
                                       domain |-> props.initialDomain,
                                       page |-> currentPage + 1,
                                       employees |-> employees,
                                       currentPage |-> currentPage])
            /\ last' = [op |-> "loadMore", issued |-> TRUE]
    /\ UNCHANGED <<store, clock, nops, props, view, mounted, employees, hasSearched,
                   currentPage, totalPages, credits, fetches>>

(* newMappedEmployees.filter((e) => !existingIds.has(e.id)) *)
NewEmployeesAll(newMappedEmployees, existing) == newMappedEmployees
NewEmployees(newMappedEmployees, existing) ==
    LET existingIds == {existing[j].id : j \in 1..Len(existing)}
        fresh(e) == e.id \notin existingIds
    IN  SelectSeq(newMappedEmployees, fresh)

(* loadMoreEmployees from the reply to its end (343-372). *)
LoadMoreResponded ==
    \E i \in 1..Len(calls), reply \in SearchReplies :
        LET call == calls[i]
            outcome == searchPerson(reply)
        IN  /\ call.fn = "loadMoreEmployees"
            /\ IF ~outcome.ok
               THEN Failed(i, outcome.message, "loadMoreResponded")
               ELSE LET response == outcome.data
                        newMappedEmployees == mapSearchResponseToEmployees(response)
                        newEmployees == NewEmployees(newMappedEmployees, call.employees)
                    IN  /\ credits' = CreditsAfter(response)
                        /\ employees' = call.employees \o newEmployees
                        /\ currentPage' = PageOr(response, call.currentPage + 1)
                        /\ isLoading' = FALSE
                        /\ calls' = RemoveAt(calls, i)
                        /\ last' = [op |-> "loadMoreResponded", ok |-> TRUE,
                                    response |-> response]
                        /\ UNCHANGED <<totalPages, fetches, hasSearched>>
            /\ UNCHANGED <<store, clock, nops, props, view, mounted>>

(* A fetchCredits() promise settles: .then(setCredits), and .catch sets    *)
(* null for the mount fetch (250-252) and nothing for a refresh (328-330). *)
CreditsSettled ==
    \E i \in 1..Len(fetches), outcome \in {<<>>} \cup {<<n>> : n \in Balances} :
        /\ fetches' = RemoveAt(fetches, i)
        /\ credits' = IF outcome # <<>> THEN outcome
                      ELSE IF fetches[i] = "mount" THEN <<>> ELSE credits
        /\ UNCHANGED <<store, clock, nops, last, props, view, mounted, employees, isLoading,
                       hasSearched, currentPage, totalPages, calls>>

-----------------------------------------------------------------------------
(* company-employees.tsx 129-152, search-history.tsx 134-155 :             *)
(* groupByDepartment                                                       *)

(* String.prototype.localeCompare in the default collation, tabulated for  *)
(* the department names of the model: letters compare without case first,  *)
(* and a lower-case letter goes before its upper-case one.                 *)
CollationOrder ==
    <<"alpha", "Alpha", "Marketing", "other", "Other", "Sales", "Zeta">>

CollationRank(name) == CHOOSE r \in 1..Len(CollationOrder) : CollationOrder[r] = name

localeCompare(a, b) ==
    IF CollationRank(a) < CollationRank(b) THEN -1
    ELSE IF CollationRank(a) > CollationRank(b) THEN 1 ELSE 0

(* A Map<string, Employee[]> as its entries in insertion order. *)
MapHas(m, key) == \E i \in 1..Len(m) : m[i].key = key
MapGet(m, key) == m[CHOOSE i \in 1..Len(m) : m[i].key = key].value
MapSet(m, key, value) ==
    IF MapHas(m, key)
    THEN [i \in 1..Len(m) |-> IF m[i].key = key THEN [key |-> key, value |-> value]
                              ELSE m[i]]
    ELSE Append(m, [key |-> key, value |-> value])
MapKeys(m) == [i \in 1..Len(m) |-> m[i].key]

(* for (const dept of employee.departments) { get || [], push, set } *)
PutInFirstDepartment(departmentMap, employee, j) ==
    LET dept == employee.departments[1]
        existing == IF MapHas(departmentMap, dept)
                    THEN MapGet(departmentMap, dept) ELSE <<>>
    IN  MapSet(departmentMap, dept, Append(existing, employee))

RECURSIVE PutInDepartments(_, _, _)
PutInDepartments(departmentMap, employee, j) ==
    IF j > Len(employee.departments) THEN departmentMap
    ELSE LET dept == employee.departments[j]
             existing == IF MapHas(departmentMap, dept)
                         THEN MapGet(departmentMap, dept) ELSE <<>>
         IN  PutInDepartments(MapSet(departmentMap, dept, Append(existing, employee)),
                              employee, j + 1)

(* for (const employee of employees) *)
RECURSIVE DepartmentMap(_, _, _)
DepartmentMap(departmentMap, emps, i) ==
    IF i > Len(emps) THEN departmentMap
    ELSE DepartmentMap(PutInDepartments(departmentMap, emps[i], 1), emps, i + 1)

(* The comparator: "Other" after everything, the rest by localeCompare. *)
CompareDepartmentsPlain(a, b) == localeCompare(a, b)
CompareDepartments(a, b) ==
    IF a = "Other" THEN 1
    ELSE IF b = "Other" THEN -1
    ELSE localeCompare(a, b)

(* Array.prototype.sort with that comparator (stable, by insertion). *)
RECURSIVE InsertDepartment(_, _)
InsertDepartment(sorted, x) ==
    IF sorted = <<>> THEN <<x>>
    ELSE IF CompareDepartments(sorted[Len(sorted)], x) <= 0 THEN Append(sorted, x)
    ELSE Append(InsertDepartment(SubSeq(sorted, 1, Len(sorted) - 1), x),
                sorted[Len(sorted)])

RECURSIVE SortDepartments(_, _, _)
SortDepartments(sorted, names, i) ==
    IF i > Len(names) THEN sorted
    ELSE SortDepartments(InsertDepartment(sorted, names[i]), names, i + 1)

(* company-employees.tsx 129-152 *)
groupByDepartment(emps) ==
    LET departmentMap == DepartmentMap(<<>>, emps, 1)
        sortedDepts == SortDepartments(<<>>, MapKeys(departmentMap), 1)
    IN  [k \in 1..Len(sortedDepts) |->
            [name |-> sortedDepts[k],
             employees |-> IF MapHas(departmentMap, sortedDepts[k])
                           THEN MapGet(departmentMap, sortedDepts[k]) ELSE <<>>]]

(* search-history.tsx 134-155: the same function over CachedEmployee. *)
groupByDepartmentCached(emps) ==
    LET departmentMap == DepartmentMap(<<>>, emps, 1)
        sortedDepts == SortDepartments(<<>>, MapKeys(departmentMap), 1)
    IN  [k \in 1..Len(sortedDepts) |->
            [name |-> sortedDepts[k],
             employees |-> IF MapHas(departmentMap, sortedDepts[k])
                           THEN MapGet(departmentMap, sortedDepts[k]) ELSE <<>>]]

(* The employee lists the grouping is applied to. *)
MaxEmployees == 3

EmployeeWith(id, departments) ==
    [id |-> id, fullName |-> "Ann A", jobTitle |-> "CEO",
     departments |-> departments, seniority |-> Undefined]

EmployeeChoices ==
    { EmployeeWith("e1", <<"Other">>), EmployeeWith("e2", <<"Zeta">>),
      EmployeeWith("e3", <<"Alpha">>), EmployeeWith("e4", <<"Sales", "Marketing">>),
      EmployeeWith("e5", <<"Zeta", "Other">>), EmployeeWith("e6", <<"other", "alpha">>),
      EmployeeWith("e7", <<"Sales", "Sales">>) }

EmployeeLists == UNION { [1..n -> EmployeeChoices] : n \in 0..MaxEmployees }

(* A render of the list: const departmentGroups = groupByDepartment(employees) *)
Render ==
    /\ last.op # "render"
    /\ last' = [op |-> "render",
                groups |-> groupByDepartment(employees),
                cachedGroups |-> groupByDepartmentCached(employees)]
    /\ UNCHANGED <<store, clock, nops, scrVars>>

-----------------------------------------------------------------------------
(* The history cache on its own: any sequence of its operations. *)

NoOp == [op |-> "none"]

(* No lookup screen is open. *)
NoView == [screen |-> "none"]

(* The screen as useState leaves it after the first render. *)
ScreenInit ==
    /\ props \in PropsChoices
    /\ mounted = FALSE
    /\ employees = <<>>
    /\ isLoading = FALSE
    /\ hasSearched = FALSE
    /\ currentPage = 0
    /\ totalPages = 0
    /\ credits = <<>>
    /\ calls = <<>>
    /\ fetches = <<>>
    /\ view = NoView

(* No screen is open. *)
NoScreen ==
    /\ props = Props(DomainAcme, NoCompany)
    /\ mounted = FALSE
    /\ employees = <<>>
    /\ isLoading = FALSE
    /\ hasSearched = FALSE
    /\ currentPage = 0
    /\ totalPages = 0
    /\ credits = <<>>
    /\ calls = <<>>
    /\ fetches = <<>>
    /\ view = NoView

HistInit ==
    /\ store \in InitStores
    /\ clock = ClockStart
    /\ nops = 0
    /\ last = NoOp
    /\ NoScreen

HistNext ==
    \/ addSearchHistoryEntry
    \/ addCompanySearchHistoryEntry
    \/ removeSearchHistoryEntry
    \/ removeCompanySearchHistoryEntry
    \/ updateCompanySearchHistoryEntry
    \/ clearSearchHistory
    \/ clearCompanySearchHistory
    \/ loadAllHistory
    \/ Tick

SpecHist == HistInit /\ [][HistNext]_vars

(* The history cache with a log at its cap. *)
CapInit ==
    /\ store \in CapStores
    /\ clock = ClockStart
    /\ nops = 0
    /\ last = NoOp
    /\ NoScreen

CapNext ==
    \/ addSearchHistoryEntry
    \/ addCompanySearchHistoryEntry
    \/ removeSearchHistoryEntry
    \/ removeCompanySearchHistoryEntry
    \/ updateCompanySearchHistoryEntry
    \/ clearSearchHistory
    \/ clearCompanySearchHistory
    \/ Tick

SpecCap == CapInit /\ [][CapNext]_vars

(* The history cache over stored items that are not logs: missing, a text  *)
(* that does not parse, a text that parses to something else.              *)
CorruptInit ==
    /\ store \in [Keys -> {Missing, Corrupt, NotAnArray}]
    /\ clock = ClockStart
    /\ nops = 0
    /\ last = NoOp
    /\ NoScreen

SpecCorrupt == CorruptInit /\ [][HistNext]_vars

-----------------------------------------------------------------------------
(* One employee list screen, mounted once, with the history store. *)

Init ==
    /\ store = [k \in Keys |-> PastLog(k, 2)]
    /\ clock = ClockStart
    /\ nops = 0
    /\ last = NoOp
    /\ ScreenInit

Next ==
    \/ Mount
    \/ SearchResponded
    \/ SearchSaved
    \/ loadMoreEmployees
    \/ LoadMoreResponded
    \/ CreditsSettled

Spec == Init /\ [][Next]_vars

-----------------------------------------------------------------------------
(* groupByDepartment applied to the employee lists of the model. *)

GroupInit ==
    /\ store = [k \in Keys |-> Missing]
    /\ clock = ClockStart
    /\ nops = 0
    /\ last = NoOp
    /\ props = Props(DomainAcme, NoCompany)
    /\ mounted = TRUE
    /\ employees \in EmployeeLists
    /\ isLoading = FALSE
    /\ hasSearched = TRUE
    /\ currentPage = 1
    /\ totalPages = 1
    /\ credits = <<>>
    /\ calls = <<>>
    /\ fetches = <<>>
    /\ view = NoView

GroupNext == Render

SpecGroup == GroupInit /\ [][GroupNext]_vars

-----------------------------------------------------------------------------
(* Properties of the history cache *)

Range(f) == {f[i] : i \in DOMAIN f}

(* C1: each of the two stored logs holds at most 100 entries, after any    *)
(* sequence of add, remove, update and clear.                              *)
C1_HistoryBounded == \A key \in Keys : Len(loadHistory(key)) <= MAX_ENTRIES

(* An add was made to a log that already held 100 entries. *)
C1_Witness ==
    /\ last.op = "add"
    /\ last.before = MAX_ENTRIES
    /\ Len(loadHistory(last.key)) = MAX_ENTRIES

(* C2: an add on a log holding L stores the new entry followed by the      *)
(* first min(|L|, 99) entries of L in their order, and returns the stored  *)
(* entry, which carries a generated id and the creation time.              *)
C2_AddPrepends ==
    [][\A key \in Keys :
        (last'.op = "add" /\ last'.key = key /\ nops' = nops + 1) =>
            LET L == loadHistory(key)
                ret == last'.ret
            IN  /\ parseHistory(store'[key])
                     = <<stringifyEntry(ret)>> \o SubSeq(L, 1, Min(Len(L), MAX_ENTRIES - 1))
                /\ \E rnd \in Rands : ret.id = generateId(clock, rnd)
                /\ getTime(ret.createdAt) = clock
                /\ ret.type = TypeOf(key)]_vars

(* An add to a full log left 100 entries, the new one first. *)
C2_Witness ==
    /\ last.op = "add"
    /\ last.before = MAX_ENTRIES
    /\ Len(loadHistory(last.key)) = MAX_ENTRIES
    /\ loadHistory(last.key)[1] = stringifyEntry(last.ret)
    /\ loadHistory(last.key)[2].id # last.ret.id

(* An entry without its type tag. *)
Untyped(e) == [k \in (DOMAIN e) \ {"type"} |-> e[k]]

Count(s, x) == Cardinality({i \in 1..Len(s) : Untyped(s[i]) = Untyped(x)})

(* C3: loadAllHistory returns each entry of both logs exactly once, the    *)
(* entries of the email log typed "email", ordered by createdAt descending *)
C3_LoadAllMerges ==
    last.op = "loadAll" =>
        LET r == last.ret
            both == loadSearchHistory \o loadCompanySearchHistory
        IN  /\ Len(r) = Len(loadSearchHistory) + Len(loadCompanySearchHistory)
            /\ \A x \in Range(r) \cup Range(both) : Count(r, x) = Count(both, x)
            /\ \A i \in 1..Len(r) :
                 (\E j \in 1..Len(loadSearchHistory) :
                        Untyped(loadSearchHistory[j]) = Untyped(r[i]))
                    => (Has(r[i], "type") /\ r[i].type = "email")
            /\ \A i \in 1..(Len(r) - 1) :
                 getTime(r[i].createdAt) >= getTime(r[i + 1].createdAt)

(* A merge that put a newer company entry before an older email entry and  *)
(* typed a legacy email entry.                                             *)
C3_Witness ==
    /\ last.op = "loadAll"
    /\ Len(last.ret) >= 2
    /\ last.ret[1].type = "company"
    /\ last.ret[2].type = "email"
    /\ getTime(last.ret[1].createdAt) > getTime(last.ret[2].createdAt)
    /\ \E j \in 1..Len(loadSearchHistory) : ~Has(loadSearchHistory[j], "type")

-----------------------------------------------------------------------------
(* Properties of the employee list screen *)

Ids(emps) == [i \in 1..Len(emps) |-> emps[i].id]

(* A searchCompany or loadMoreEmployees run ended with this step. *)
Responded(op, ok) == last'.op = op /\ last'.ok = ok /\ calls' # calls

(* The person-search requests of the screen that are in flight. *)
InFlight == {i \in 1..Len(calls) : calls[i].stage = "fetch"}

(* The step issued a person-search request. *)
Issued == Len(calls') = Len(calls) + 1 /\ calls'[Len(calls')].stage = "fetch"

(* C4: a successful load-more leaves the accumulated employees as a prefix *)
(* and appends the employees of the new page whose id was not accumulated, *)
(* in page order.                                                          *)
C4_LoadMoreAppends ==
    [][Responded("loadMoreResponded", TRUE) =>
        LET page == mapSearchResponseToEmployees(last'.response)
            unseen == {i \in 1..Len(page) :
                          \A j \in 1..Len(employees) : employees[j].id # page[i].id}
            kept(e) == \E i \in unseen : page[i] = e
        IN  /\ SubSeq(employees', 1, Len(employees)) = employees
            /\ SubSeq(employees', Len(employees) + 1, Len(employees'))
                 = SelectSeq(page, kept)
            /\ Len(employees') = Len(employees) + Cardinality(unseen)]_vars

(* Page 1 = (a, b) and page 2 = (b, c) accumulated to (a, b, c). *)
C4_Witness ==
    /\ last.op = "loadMoreResponded"
    /\ last.ok
    /\ Ids(mapSearchResponseToEmployees(last.response)) = <<"b", "c">>
    /\ Ids(employees) = <<"a", "b", "c">>

(* C5: load-more issues a request only when currentPage < totalPages and   *)
(* no request is in flight, then for page currentPage + 1; in every other  *)
(* state it issues none and changes no state of the screen.                *)
C5_LoadMoreGuard ==
    [][loadMoreEmployees =>
        /\ Issued => /\ currentPage < totalPages
                     /\ InFlight = {}
                     /\ calls'[Len(calls')].page = currentPage + 1
                     /\ calls'[Len(calls')].domain = props.initialDomain
        /\ ~(currentPage < totalPages /\ InFlight = {}) =>
              /\ calls' = calls
              /\ UNCHANGED <<employees, isLoading, hasSearched, currentPage,
                             totalPages, credits, fetches, store>>]_vars

(* Load-more asked for the page after the current one. *)
C5_Witness ==
    /\ last.op = "loadMore"
    /\ last.issued
    /\ Len(calls) = 1
    /\ calls[1].fn = "loadMoreEmployees"
    /\ calls[1].page = currentPage + 1
    /\ currentPage >= 1

(* C6: after a successful search or load-more response, currentPage and    *)
(* totalPages are the page and total_pages of the response; without        *)
(* pagination metadata the screen is on its only page: no further          *)
(* load-more is possible.                                                  *)
C6_PaginationOverwrites ==
    (last.op \in {"searchResponded", "loadMoreResponded"} /\ last.ok) =>
        IF Has(last.response, "pagination")
        THEN /\ currentPage = last.response.pagination.page
             /\ totalPages = last.response.pagination.total_pages
        ELSE ~(currentPage < totalPages)

(* C7: a fresh search empties the accumulated employees, sets both page    *)
(* counters to 0 and asks for page 1 of the given domain; a domain that is *)
(* empty after trimming issues no request and resets nothing.              *)
C7_FreshSearchResets ==
    [][Mount =>
        LET domain == props.initialDomain
            blank == \A i \in 1..Len(domain) : domain[i] = " "
        IN  IF blank
            THEN /\ calls' = calls
                 /\ UNCHANGED <<employees, isLoading, hasSearched, currentPage,
                                totalPages>>
            ELSE /\ employees' = <<>>
                 /\ currentPage' = 0
                 /\ totalPages' = 0
                 /\ Issued
                 /\ calls'[Len(calls')].page = 1
                 /\ calls'[Len(calls')].domain = domain]_vars

(* A search for a domain was started and its request is in flight. *)
C7_Witness ==
    /\ last.op = "searchCompany"
    /\ last.issued
    /\ Len(calls) = 1
    /\ calls[1].page = 1
    /\ calls[1].domain = DomainPadded
    /\ employees = <<>> /\ currentPage = 0 /\ totalPages = 0

(* C8: a failed search or load-more leaves the employees as they were when *)
(* the action was invoked, leaves currentPage and totalPages alone and     *)
(* ends the loading state.                                                 *)
C8_FailureKeepsEmployees ==
    [][(Responded("searchResponded", FALSE) \/ Responded("loadMoreResponded", FALSE)) =>
        /\ \E i \in 1..Len(calls) :
              /\ calls' = RemoveAt(calls, i)
              /\ employees' = calls[i].employees
        /\ currentPage' = currentPage
        /\ totalPages' = totalPages
        /\ ~isLoading']_vars

(* A load-more failed on a screen that had employees. *)
C8_Witness ==
    /\ last.op = "loadMoreResponded"
    /\ ~last.ok
    /\ employees # <<>>
    /\ ~isLoading
    /\ currentPage < totalPages

-----------------------------------------------------------------------------
(* Properties of groupByDepartment *)

(* g lists employees of emps in the order of emps, from position i on. *)
RECURSIVE Follows(_, _, _, _)
Follows(g, k, emps, i) ==
    IF k > Len(g) THEN TRUE
    ELSE IF i > Len(emps) THEN FALSE
    ELSE IF g[k] = emps[i] THEN Follows(g, k + 1, emps, i)
    ELSE Follows(g, k, emps, i + 1)

GroupedByMembership(gs, emps) ==
    /\ \A i \in 1..Len(emps) :
        /\ \A d \in Range(emps[i].departments) : \E k \in 1..Len(gs) : gs[k].name = d
        /\ \A k \in 1..Len(gs) :
              (emps[i] \in Range(gs[k].employees))
                 <=> (gs[k].name \in Range(emps[i].departments))
        /\ Cardinality({k \in 1..Len(gs) : emps[i] \in Range(gs[k].employees)})
             = Cardinality(Range(emps[i].departments))
    /\ \A k \in 1..Len(gs) :
        /\ gs[k].employees # <<>>
        /\ Range(gs[k].employees) \subseteq Range(emps)
        /\ Follows(gs[k].employees, 1, emps, 1)

(* C9: an employee is in the group named d exactly when d is one of its    *)
(* departments, so in as many groups as it has distinct departments; no    *)
(* group is empty; a group keeps the input order; both copies agree.       *)
C9_GroupMembership ==
    last.op = "render" =>
        /\ GroupedByMembership(last.groups, employees)
        /\ GroupedByMembership(last.cachedGroups, employees)
        /\ last.cachedGroups = last.groups

(* An employee of Sales and Marketing is in both groups, and a group holds *)
(* two employees in their input order.                                     *)
C9_Witness ==
    /\ last.op = "render"
    /\ \E i \in 1..Len(employees) :
        /\ employees[i].departments = <<"Sales", "Marketing">>
        /\ \E k, l \in 1..Len(last.groups) :
              /\ last.groups[k].name = "Sales"
              /\ last.groups[l].name = "Marketing"
              /\ employees[i] \in Range(last.groups[k].employees)
              /\ employees[i] \in Range(last.groups[l].employees)
    /\ \E k \in 1..Len(last.groups) :
        /\ Len(last.groups[k].employees) = 2
        /\ last.groups[k].employees[1] # last.groups[k].employees[2]

(* C10: the groups have pairwise distinct names in ascending order, but    *)
(* the group named exactly "Other" is last.                                *)
C10_GroupOrder ==
    last.op = "render" =>
        \A k, l \in 1..Len(last.groups) :
            k < l =>
                /\ last.groups[k].name # last.groups[l].name
                /\ last.groups[k].name # "Other"
                /\ last.groups[l].name # "Other" =>
                      CollationRank(last.groups[k].name) < CollationRank(last.groups[l].name)

(* Departments met in the order Other, Zeta, Alpha come out as Alpha,      *)
(* Zeta, Other.                                                            *)
C10_Witness ==
    /\ last.op = "render"
    /\ Len(employees) = 3
    /\ employees[1].departments = <<"Other">>
    /\ employees[2].departments = <<"Zeta">>
    /\ employees[3].departments = <<"Alpha">>
    /\ [k \in 1..Len(last.groups) |-> last.groups[k].name] = <<"Alpha", "Zeta", "Other">>

-----------------------------------------------------------------------------
(* The pure functions of the extension, each applied once to an input.     *)

(* The bodies of the enrichment endpoint's success replies: person, email *)
(* record, email string and company are each optional.                     *)
EnrichBodies ==
    LET EmailAnn == <<"a", "@", "a", ".", "i", "o">>
        people ==
            { <<>> } \cup
            { [person |-> q] :
                q \in { [full_name |-> "Ann A"],
                        [full_name |-> "Ann A", email |-> [status |-> "none"]],
                        [full_name |-> "Ann A", email |-> [status |-> "none", email |-> <<>>]],
                        [full_name |-> "Ann A", email |-> [status |-> "valid", email |-> EmailAnn]],
                        [email |-> [status |-> "valid", email |-> EmailAnn]] } }
        companies ==
            { <<>> } \cup
            { [company |-> c] :
                c \in { [industry |-> <<>>],
                        [name |-> NameAcme],
                        [name |-> <<>>, website |-> <<"w">>, domain |-> <<>>],
                        [name |-> NameAcme, website |-> <<"w">>, domain |-> DomainAcme,
                         industry |-> <<"i">>] } }
    IN  { Spread(q, c) : q \in people, c \in companies }

-----------------------------------------------------------------------------
(* backend.ts : searchCompanyByName *)

(* The try block: fetch, response.ok, response.json(), the shape test and  *)
(* the map over data.data. threw tells that an exception left the block.   *)
CompanyTryBody(reply) ==
    IF reply.kind = "transport" \/ (IsOk(reply.status) /\ ~Has(reply, "body"))
    THEN [threw |-> TRUE, value |-> <<>>]
    ELSE IF ~IsOk(reply.status) THEN [threw |-> FALSE, value |-> <<>>]
    ELSE LET data == reply.body
         IN  IF ~Has(data, "status") \/ data.status # "success"
                \/ ~Has(data, "data") \/ ~data.data.isArray
             THEN [threw |-> FALSE, value |-> <<>>]
             ELSE IF \E i \in 1..Len(data.data.items) : data.data.items[i] = [null |-> TRUE]
             THEN [threw |-> TRUE, value |-> <<>>]
             ELSE [threw |-> FALSE,
                   value |-> [i \in 1..Len(data.data.items) |->
                                [name |-> data.data.items[i].name,
                                 domain |-> data.data.items[i].domain,
                                 confidence_score |-> data.data.items[i].confidence_score,
                                 logo_url |-> data.data.items[i].logo_url]]]

CompanyCatchRethrows(outcome) ==
    [failed |-> outcome.threw, called |-> TRUE, value |-> outcome.value]

(* catch (error) { console.error(...); return []; } *)
CompanyCatch(outcome) ==
    [failed |-> FALSE, called |-> TRUE,
     value |-> IF outcome.threw THEN <<>> ELSE outcome.value]

searchCompanyByName(query, reply) ==
    IF query = <<>> \/ Len(trim(query)) < 2
    THEN [failed |-> FALSE, called |-> FALSE, value |-> <<>>]
    ELSE CompanyCatch(CompanyTryBody(reply))

(* The replies of the autocomplete service. *)
CompanyReplies ==
    LET item == [name |-> NameAcme, domain |-> DomainAcme, confidence_score |-> 9,
                 logo_url |-> "logo", extra |-> "x"]
    IN  { [kind |-> "transport"],
          [kind |-> "http", status |-> 500, body |-> [status |-> "failed"]],
          [kind |-> "http", status |-> 429],
          [kind |-> "http", status |-> 200],
          [kind |-> "http", status |-> 200, body |-> <<>>],
          [kind |-> "http", status |-> 200, body |-> [status |-> "failed"]],
          [kind |-> "http", status |-> 200, body |-> [status |-> "success"]],
          [kind |-> "http", status |-> 200,
           body |-> [status |-> "success", data |-> [isArray |-> FALSE]]],
          [kind |-> "http", status |-> 200,
           body |-> [status |-> "failed", data |-> [isArray |-> TRUE, items |-> <<item>>]]] }
        \cup
        { [kind |-> "http", status |-> 200,
           body |-> [status |-> "success", data |-> [isArray |-> TRUE, items |-> its]]] :
             its \in {<<>>, <<item>>, <<item, item>>, <<item, [null |-> TRUE]>>} }

(* Replies that are no success: a transport failure, insufficient credits, *)
(* errors with and without a message, and a gateway's page that is not     *)
(* JSON.                                                                   *)
FailureReplies ==
    { [kind |-> "transport"],
      [kind |-> "http", status |-> 402,
       body |-> [error |-> TRUE, error_code |-> "INSUFFICIENT_CREDITS",
                 message |-> <<"Insufficient credits">>, balance |-> 3]],
      [kind |-> "http", status |-> 402,
       body |-> [error |-> TRUE, message |-> <<"Payment required">>]],
      [kind |-> "http", status |-> 500,
       body |-> [error |-> TRUE, message |-> <<"Server error">>]],
      [kind |-> "http", status |-> 404, body |-> <<>>],
      [kind |-> "http", status |-> 200, body |-> [error |-> TRUE]],
      [kind |-> "http", status |-> 200, body |-> [error |-> TRUE, message |-> <<>>]],
      [kind |-> "http", status |-> 502] }

EnrichReplies ==
    {[kind |-> "http", status |-> 200, body |-> Spread([balance |-> 3], b)] : b \in EnrichBodies}
    \cup FailureReplies

(* The arguments the pure functions are applied to: search responses over *)
(* people with every shape of job history the mapper distinguishes,       *)
(* enrichment responses with a domain, replies to the two paid calls, and *)
(* queries with replies of the autocomplete service.                      *)
PureInputs ==
    LET DomainAcmeCom == <<"a", "c", "m", "e", ".", "c", "o", "m">>
        MapPersons ==
            { PersonA, PersonB, PersonC,
              [person_id |-> "d", full_name |-> "Di D", job_history |-> <<>>],
              [person_id |-> "e", full_name |-> "Ed E",
               job_history |-> <<Spread(Job(FALSE, "Clerk", "entry"), [departments |-> <<"Alpha">>])>>],
              [person_id |-> "f", full_name |-> "Flo F",
               job_history |-> <<Spread(Job(TRUE, "Lead", "senior"), [departments |-> <<>>])>>],
              [person_id |-> "g", full_name |-> "Gus G",
               job_history |-> <<Spread(Job(TRUE, "Lead", "senior"), [departments |-> <<"Alpha">>]),
                                 Spread(Job(TRUE, "Advisor", "senior"), [departments |-> <<"Zeta">>])>>] }
        MapSearchInputs ==
            { [op |-> "input", fn |-> "mapSearch", response |-> r] :
                r \in {<<>>} \cup
                      { [results |-> rs] :
                          rs \in UNION { [1..n -> {Item(q) : q \in MapPersons}] : n \in 0..2 } } }
        MapEnrichInputs ==
            { [op |-> "input", fn |-> "mapEnrich", response |-> r, domain |-> d] :
                r \in EnrichBodies, d \in {DomainAcmeCom, DomainAcme, DomainEmpty} }
        BackendInputs ==
            { [op |-> "input", fn |-> "searchPerson", reply |-> r] : r \in SearchReplies \cup FailureReplies }
            \cup
            { [op |-> "input", fn |-> "enrichPerson", reply |-> r] : r \in EnrichReplies }
        CompanyQueries ==
            { <<>>, <<"a">>, <<" ", "a", " ">>, <<" ", " ", " ">>, <<"a", "c">>, <<" ", "a", "c", " ">> }
        CompanySearchInputs ==
            { [op |-> "input", fn |-> "searchCompanyByName", query |-> q, reply |-> r] :
                q \in CompanyQueries, r \in CompanyReplies }
    IN  MapSearchInputs \cup MapEnrichInputs \cup BackendInputs \cup CompanySearchInputs

(* const employees = mapSearchResponseToEmployees(response) *)
MapSearch ==
    /\ last.op = "input" /\ last.fn = "mapSearch"
    /\ last' = [op |-> "mapSearch", response |-> last.response,
                ret |-> mapSearchResponseToEmployees(last.response)]
    /\ UNCHANGED <<store, clock, nops, scrVars>>

(* mapEnrichResponseToData(response, domain) in the employee flow and     *)
(* mapResponseToEnrichedData(response, domain) in the email form flow.     *)
MapEnrich ==
    /\ last.op = "input" /\ last.fn = "mapEnrich"
    /\ last' = [op |-> "mapEnrich", response |-> last.response, domain |-> last.domain,
                ret |-> mapEnrichResponseToData(last.response, last.domain),
                retForm |-> mapResponseToEnrichedData(last.response, last.domain)]
    /\ UNCHANGED <<store, clock, nops, scrVars>>

(* await searchPerson(domain, page) / await enrichPerson(...) settling *)
CallBackend ==
    /\ last.op = "input" /\ last.fn \in {"searchPerson", "enrichPerson"}
    /\ last' = [op |-> last.fn, reply |-> last.reply,
                ret |-> IF last.fn = "searchPerson"
                        THEN searchPerson(last.reply) ELSE enrichPerson(last.reply)]
    /\ UNCHANGED <<store, clock, nops, scrVars>>

(* await searchCompanyByName(query) settling *)
CallSearchCompanyByName ==
    /\ last.op = "input" /\ last.fn = "searchCompanyByName"
    /\ last' = [op |-> "searchCompanyByName", query |-> last.query, reply |-> last.reply,
                ret |-> searchCompanyByName(last.query, last.reply)]
    /\ UNCHANGED <<store, clock, nops, scrVars>>

PureInit ==
    /\ store = [k \in Keys |-> Missing]
    /\ clock = ClockStart
    /\ nops = 0
    /\ last \in PureInputs
    /\ NoScreen

PureNext ==
    \/ MapSearch
    \/ MapEnrich
    \/ CallBackend
    \/ CallSearchCompanyByName

SpecPure == PureInit /\ [][PureNext]_vars

-----------------------------------------------------------------------------
(* The lookup screens: EmailFormView (email-finder.tsx 227-332) and        *)
(* EnrichedEmployeeView (company-employees.tsx 476-578). One record holds  *)
(* the screen's props (initial), its useState fields, its useRef latch     *)
(* (started), the ResultsView the form pushed, the enrichPerson calls      *)
(* waiting at their await and the fetchCredits() promises not yet settled; *)
(* gone is set once the screen has been removed from the navigation stack. *)

LookupView(screen, initial, loading, balance) ==
    [screen |-> screen, initial |-> initial, mounted |-> FALSE, started |-> FALSE,
     gone |-> FALSE,
     isLoading |-> loading, error |-> <<>>, enrichedData |-> <<>>, pushed |-> <<>>,
     credits |-> balance, pending |-> <<>>, fetches |-> <<>>]

Person(firstName, lastName, domain) ==
    [firstName |-> firstName, lastName |-> lastName, domain |-> domain]

(* The screens as they are opened: the form with all arguments or none,    *)
(* the enriched view for an employee with the list's balance.              *)
LookupViews ==
    { LookupView("form", Person("Ada", "Byron", DomainAcme), FALSE, <<>>),
      LookupView("form", Person("", "", <<>>), FALSE, <<>>),
      LookupView("enriched", Person("Ada", "Byron", DomainAcme), TRUE, <<3>>) }

(* handleSubmit / fetchEnrichedData up to await enrichPerson(...); the     *)
(* call keeps the credits of the render whose handleSubmit was invoked and *)
(* the cancelled flag of the effect run that made it.                      *)
LookupStarted(v, values) ==
    [v EXCEPT !.isLoading = TRUE,
              !.error = IF v.screen = "form" THEN <<>> ELSE @,
              !.pending = Append(@, Spread(values, [cancelled |-> FALSE,
                                                    credits |-> v.credits]))]

(* One run of the screen's mount effects: the form fetches the balance and *)
(* auto-submits once when all arguments are given (243-273); the enriched  *)
(* view starts its request unless hasStartedRef is set (494-497, 561).     *)
MountEffects(v) ==
    LET hasAllArguments == /\ v.initial.firstName # ""
                           /\ v.initial.lastName # ""
                           /\ v.initial.domain # <<>>
    IN  IF v.screen = "form"
        THEN LET f == [v EXCEPT !.fetches = Append(@, "mount")]
             IN  IF ~f.started /\ hasAllArguments
                 THEN LookupStarted([f EXCEPT !.started = TRUE], v.initial)
                 ELSE f
        ELSE IF v.started THEN v
             ELSE LookupStarted([v EXCEPT !.started = TRUE], v.initial)

(* The effects of the first render. *)
ViewMount ==
    /\ view.screen # "none" /\ ~view.mounted /\ ~view.gone
    /\ view' = MountEffects([view EXCEPT !.mounted = TRUE])
    /\ nops' = IF Len(view'.pending) > 0 THEN nops + 1 ELSE nops
    /\ UNCHANGED <<store, clock, last, props, mounted, employees, isLoading,
                   hasSearched, currentPage, totalPages, credits, calls, fetches>>

(* The cleanups of the screen's effects: return () => { cancelled = true } *)
(* in the enriched view (563-565); the form's effects return none.         *)
EffectCleanups(v) ==
    IF v.screen = "enriched"
    THEN [v EXCEPT !.pending = [j \in DOMAIN @ |-> [@[j] EXCEPT !.cancelled = TRUE]]]
    ELSE v

(* The first render under React Strict Mode: the effects run, their        *)
(* cleanups run, and the effects run again with state and refs kept.       *)
ViewMountTwice ==
    /\ view.screen # "none" /\ ~view.mounted /\ ~view.gone
    /\ view' = MountEffects(EffectCleanups(MountEffects([view EXCEPT !.mounted = TRUE])))
    /\ nops' = IF Len(view'.pending) > 0 THEN nops + 1 ELSE nops
    /\ UNCHANGED <<store, clock, last, props, mounted, employees, isLoading,
                   hasSearched, currentPage, totalPages, credits, calls, fetches>>

(* The screen is popped from the navigation stack: its effects' cleanups   *)
(* run and its state is dropped; the promises it started stay pending.     *)
ViewUnmount ==
    /\ view.screen # "none" /\ view.mounted
    /\ view' = [EffectCleanups(view) EXCEPT !.mounted = FALSE, !.gone = TRUE]
    /\ UNCHANGED <<store, clock, nops, last, props, mounted, employees, isLoading,
                   hasSearched, currentPage, totalPages, credits, calls, fetches>>

(* Action.SubmitForm onSubmit={(values) => handleSubmit(values)} *)
SubmitForm ==
    /\ view.screen = "form" /\ view.mounted
    /\ nops < MaxOps
    /\ Len(view.pending) < MaxFetches
    /\ view' = LookupStarted(view, Person("Ada", "Byron", DomainAcme))
    /\ nops' = nops + 1
    /\ UNCHANGED <<store, clock, last, props, mounted, employees, isLoading,
                   hasSearched, currentPage, totalPages, credits, calls, fetches>>

(* The replies a lookup is answered with. *)
LookupReplies ==
    { r \in EnrichReplies :
        \/ r.kind = "transport"
        \/ ~Has(r, "body")
        \/ r.status = 402 /\ Has(r.body, "error_code")
        \/ r.status = 500 /\ Has(r.body, "message")
        \/ r.status = 200 /\ r.body = [error |-> TRUE]
        \/ /\ r.status = 200
           /\ Has(r.body, "person") /\ Has(r.body.person, "full_name")
           /\ Has(r.body.person, "email") /\ Has(r.body.person.email, "email")
           /\ r.body.person.email.email = <<>> => Has(r.body, "company")
           /\ Has(r.body, "company") => Has(r.body.company, "industry")
           /\ Has(r.body, "company") => Has(r.body.company, "name") }

(* What the try block makes of the reply: the error it throws or the       *)
(* mapped data, with the balance the reply carries.                        *)
LookupOutcome(screen, call, reply) ==
    LET res == enrichPerson(reply)
        mapped == IF ~res.ok THEN <<>>
                  ELSE IF screen = "form"
                  THEN mapResponseToEnrichedData(res.data, call.domain)
                  ELSE mapEnrichResponseToData(res.data, call.domain)
    IN  [ok |-> res.ok /\ mapped # <<>>,
         message |-> IF ~res.ok THEN res.message ELSE <<"No email found for this person">>,
         mapped |-> mapped,
         balance |-> IF res.ok /\ Has(res.data, "balance") THEN <<res.data.balance>> ELSE <<>>]

ErrorEntryAsSuccess(call, message) ==
    [firstName |-> call.firstName, lastName |-> call.lastName, domain |-> call.domain,
     status |-> "success", error |-> message]

(* catch: { firstName, lastName, domain, status: "error", error: message } *)
ErrorEntry(call, message) ==
    [firstName |-> call.firstName, lastName |-> call.lastName, domain |-> call.domain,
     status |-> "error", error |-> message]

SuccessEntry(call, mapped) ==
    [firstName |-> call.firstName, lastName |-> call.lastName, domain |-> call.domain,
     status |-> "success", email |-> mapped.person.email.email, enrichedData |-> mapped]

(* await enrichPerson(...) settles and the rest of handleSubmit /           *)
(* fetchEnrichedData runs: setCredits, the mapper, the history entry, the  *)
(* pushed ResultsView or setEnrichedData; catch: setError, the history     *)
(* entry, fetchCredits(); finally: setIsLoading(false).  The state setters *)
(* of a screen that is gone change nothing; the rest still runs.           *)
EnrichResponded ==
    \E i \in 1..Len(view.pending), reply \in LookupReplies, rnd \in Rands :
        LET call == view.pending[i]
            values == Person(call.firstName, call.lastName, call.domain)
            out == LookupOutcome(view.screen, call, reply)
            rest == [view EXCEPT !.pending = RemoveAt(@, i)]
            credited == IF out.balance # <<>> /\ ~view.gone
                        THEN [rest EXCEPT !.credits = out.balance]
                        ELSE rest
            shown == [data |-> out.mapped[1], credits |-> call.credits]
        IN  /\ view.screen # "none"
            /\ IF view.screen = "enriched" /\ call.cancelled
               THEN /\ view' = rest
                    /\ UNCHANGED <<store, last>>
               ELSE /\ last' = [op |-> "lookup", reply |-> reply, ok |-> out.ok,
                                message |-> out.message, call |-> values,
                                before |-> loadSearchHistory]
                    /\ IF out.ok
                       THEN /\ store' = StoreAfterAdd(STORAGE_KEY,
                                                      SuccessEntry(values, out.mapped[1]), rnd)
                            /\ view' = [credited EXCEPT
                                  !.isLoading = IF view.gone THEN @ ELSE FALSE,
                                  !.enrichedData = IF view.screen = "enriched"
                                                   THEN out.mapped ELSE @,
                                  !.pushed = IF view.screen = "form" THEN <<shown>> ELSE @]
                       ELSE /\ Len(view.fetches) < MaxFetches
                            /\ store' = StoreAfterAdd(STORAGE_KEY,
                                                      ErrorEntry(values, out.message), rnd)
                            /\ view' = [credited EXCEPT
                                  !.isLoading = IF view.gone THEN @ ELSE FALSE,
                                  !.error = IF view.gone THEN @ ELSE <<out.message>>,
                                  !.fetches = Append(@, "refresh")]
    /\ UNCHANGED <<clock, nops, props, mounted, employees, isLoading,
                   hasSearched, currentPage, totalPages, credits, calls, fetches>>

(* A fetchCredits() promise settling with every failure shown as -1. *)
ViewCreditsSettledAsMount ==
    \E i \in 1..Len(view.fetches), outcome \in {<<n>> : n \in Balances} \cup {<<>>} :
        /\ view' = [view EXCEPT
              !.fetches = RemoveAt(@, i),
              !.credits = IF view.gone THEN @
                          ELSE IF outcome # <<>> THEN outcome ELSE <<-1>>]
        /\ UNCHANGED <<store, clock, nops, last, props, mounted, employees, isLoading,
                       hasSearched, currentPage, totalPages, credits, calls, fetches>>

(* A fetchCredits() promise settles: .then(setCredits); the form's mount   *)
(* fetch sets -1 on failure, the refresh after a failure ignores it.       *)
ViewCreditsSettled ==
    \E i \in 1..Len(view.fetches), outcome \in {<<n>> : n \in Balances} \cup {<<>>} :
        /\ view' = [view EXCEPT
              !.fetches = RemoveAt(@, i),
              !.credits = IF view.gone THEN @
                          ELSE IF outcome # <<>> THEN outcome
                          ELSE IF view.fetches[i] = "mount" THEN <<-1>> ELSE @]
        /\ UNCHANGED <<store, clock, nops, last, props, mounted, employees, isLoading,
                       hasSearched, currentPage, totalPages, credits, calls, fetches>>

LookupInit ==
    /\ store = [k \in Keys |-> IF k = STORAGE_KEY THEN PastLog(STORAGE_KEY, 2) ELSE Missing]
    /\ clock = ClockStart
    /\ nops = 0
    /\ last = NoOp
    /\ props = Props(DomainAcme, NoCompany)
    /\ mounted = FALSE
    /\ employees = <<>>
    /\ isLoading = FALSE
    /\ hasSearched = FALSE
    /\ currentPage = 0
    /\ totalPages = 0
    /\ credits = <<>>
    /\ calls = <<>>
    /\ fetches = <<>>
    /\ view \in LookupViews

LookupNext ==
    \/ ViewMount
    \/ SubmitForm
    \/ EnrichResponded
    \/ ViewCreditsSettled

SpecLookup == LookupInit /\ [][LookupNext]_vars

(* The lookup screens with the host's lifecycle: Strict Mode's double run  *)
(* of the mount effects and the removal of the screen.  A request that was *)
(* sent is answered or fails: enrichPerson's fetch always settles.         *)
LifeNext ==
    \/ ViewMount
    \/ ViewMountTwice
    \/ ViewUnmount
    \/ SubmitForm
    \/ EnrichResponded
    \/ ViewCreditsSettled

SpecLife == LookupInit /\ [][LifeNext]_vars /\ WF_vars(EnrichResponded)

-----------------------------------------------------------------------------
(* history-storage.ts 73-87, 122-136 : an add is a read, then a write.     *)
(* Between `await load...()` and `await save...(updated)` other calls run. *)

(* const entries = await load...(); const newEntry = {...}: the call now   *)
(* holds the log it read and the entry it built.                           *)
AddRead ==
    \E key \in Keys, rnd \in Rands :
        \E entry \in InputsOf(key) :
            /\ nops < MaxOps
            /\ ~Throws(key)
            /\ calls' = Append(calls, [fn |-> "add", stage |-> "write", key |-> key,
                                       newEntry |-> NewEntry(key, entry, rnd),
                                       entries |-> loadHistory(key)])
            /\ nops' = nops + 1
            /\ UNCHANGED <<store, clock, last, props, view, mounted, employees, isLoading,
                           hasSearched, currentPage, totalPages, credits, fetches>>

(* The write of a call that reads the log again under a lock. *)
AddWriteLocked ==
    \E i \in 1..Len(calls) :
        LET call == calls[i]
            updated == Prepended(call.newEntry, loadHistory(call.key))
        IN  /\ call.fn = "add"
            /\ store' = [store EXCEPT ![call.key] = stringify(updated)]
            /\ calls' = RemoveAt(calls, i)
            /\ last' = [op |-> "addWrite", key |-> call.key, ret |-> call.newEntry,
                        read |-> call.entries, before |-> loadHistory(call.key),
                        prev |-> last]
            /\ UNCHANGED <<clock, nops, props, view, mounted, employees, isLoading,
                           hasSearched, currentPage, totalPages, credits, fetches>>

(* await save...([newEntry, ...entries].slice(0, MAX_ENTRIES)): the log    *)
(* the call read is written back with the new entry in front.  last keeps  *)
(* the writes in order: what was read, what the log held, the write before.*)
AddWrite ==
    \E i \in 1..Len(calls) :
        LET call == calls[i]
            updated == Prepended(call.newEntry, call.entries)
        IN  /\ call.fn = "add"
            /\ store' = [store EXCEPT ![call.key] = stringify(updated)]
            /\ calls' = RemoveAt(calls, i)
            /\ last' = [op |-> "addWrite", key |-> call.key, ret |-> call.newEntry,
                        read |-> call.entries, before |-> loadHistory(call.key),
                        prev |-> last]
            /\ UNCHANGED <<clock, nops, props, view, mounted, employees, isLoading,
                           hasSearched, currentPage, totalPages, credits, fetches>>

RaceNext ==
    \/ AddRead
    \/ AddWrite

SpecRace == HistInit /\ [][RaceNext]_vars

-----------------------------------------------------------------------------
(* hooks/useCompanySearch.ts 10-48 : useCompanySearch.  The record holds   *)
(* the query prop, the hook's useState fields and the searchCompanyByName  *)
(* promises not yet settled, each with the cancelled flag of its effect    *)
(* run; gen counts the query changes and shownFor is the query whose reply *)
(* set the results.                                                        *)

(* The texts typed into the search bar. *)
HookQueries ==
    { <<>>, <<"a">>, <<" ", "a", " ">>, <<"a", "c">>, <<" ", "a", "c", " ">>,
      <<"a", "c", "m">>, <<"a", "c", "m", "e">> }

HookInit ==
    /\ store = [k \in Keys |-> Missing]
    /\ clock = ClockStart
    /\ nops = 0
    /\ last = NoOp
    /\ props = Props(DomainAcme, NoCompany)
    /\ mounted = FALSE
    /\ employees = <<>>
    /\ isLoading = FALSE
    /\ hasSearched = FALSE
    /\ currentPage = 0
    /\ totalPages = 0
    /\ credits = <<>>
    /\ calls = <<>>
    /\ fetches = <<>>
    /\ view = [screen |-> "hook", query |-> <<>>, gen |-> 0, results |-> <<>>,
               shownFor |-> <<>>, isLoading |-> FALSE, error |-> <<>>, pending |-> <<>>]

(* The effect of a query change without the cleanup of the run before. *)
QueryChangedKeeping ==
    \E query \in HookQueries \ {view.query} :
        /\ view.screen = "hook"
        /\ nops < MaxOps
        /\ nops' = nops + 1
        /\ view' =
              IF query = <<>> \/ Len(trim(query)) < 2
              THEN [view EXCEPT !.query = query, !.gen = @ + 1,
                                !.results = <<>>, !.shownFor = <<>>,
                                !.isLoading = FALSE, !.error = <<>>]
              ELSE [view EXCEPT !.query = query, !.gen = @ + 1,
                                !.isLoading = TRUE, !.error = <<>>,
                                !.pending = Append(@, [query |-> query, gen |-> view.gen + 1,
                                                       cancelled |-> FALSE])]
        /\ UNCHANGED <<store, clock, last, props, mounted, employees, isLoading,
                       hasSearched, currentPage, totalPages, credits, calls, fetches>>

(* useEffect(..., [query]) on a new query: the cleanup of the run before   *)
(* sets its cancelled (42-44), then the guard of 17-22 or the call of 24-28.*)
QueryChanged ==
    \E query \in HookQueries \ {view.query} :
        LET cleaned == [j \in DOMAIN view.pending |->
                          [view.pending[j] EXCEPT !.cancelled = TRUE]]
        IN  /\ view.screen = "hook"
            /\ nops < MaxOps
            /\ nops' = nops + 1
            /\ view' =
                  IF query = <<>> \/ Len(trim(query)) < 2
                  THEN [view EXCEPT !.query = query, !.gen = @ + 1,
                                    !.results = <<>>, !.shownFor = <<>>,
                                    !.isLoading = FALSE, !.error = <<>>,
                                    !.pending = cleaned]
                  ELSE [view EXCEPT !.query = query, !.gen = @ + 1,
                                    !.isLoading = TRUE, !.error = <<>>,
                                    !.pending = Append(cleaned,
                                                       [query |-> query, gen |-> view.gen + 1,
                                                        cancelled |-> FALSE])]
            /\ UNCHANGED <<store, clock, last, props, mounted, employees, isLoading,
                           hasSearched, currentPage, totalPages, credits, calls, fetches>>

(* searchCompanyByName(query) settles: .then / .catch of 29-40. *)
CompanySearchSettled ==
    \E i \in 1..Len(view.pending), reply \in CompanyReplies :
        LET call == view.pending[i]
            out == searchCompanyByName(call.query, reply)
            rest == [view EXCEPT !.pending = RemoveAt(@, i)]
        IN  /\ view.screen = "hook"
            /\ view' = IF call.cancelled THEN rest
                       ELSE IF out.failed
                       THEN [rest EXCEPT !.error = <<"Failed to search">>,
                                         !.isLoading = FALSE]
                       ELSE [rest EXCEPT !.results = out.value,
                                         !.shownFor = call.query,
                                         !.isLoading = FALSE]
            /\ last' = [op |-> "companySearchSettled", query |-> call.query,
                        gen |-> call.gen, value |-> out.value]
            /\ UNCHANGED <<store, clock, nops, props, mounted, employees, isLoading,
                           hasSearched, currentPage, totalPages, credits, calls, fetches>>

HookNext ==
    \/ QueryChanged
    \/ CompanySearchSettled

SpecHook == HookInit /\ [][HookNext]_vars

-----------------------------------------------------------------------------
(* Properties of the mappers and of the backend calls *)

(* The departments of the first job flagged current, <<>> when there is    *)
(* no such job or it lists none.                                           *)
CurrentDepartments(person) ==
    LET jh == IF Has(person, "job_history") THEN person.job_history ELSE <<>>
        cur == {i \in 1..Len(jh) : jh[i].current}
        first == CHOOSE i \in cur : \A j \in cur : i <= j
    IN  IF cur # {} /\ Has(jh[first], "departments") THEN jh[first].departments ELSE <<>>

(* C11: the mapper yields one employee per result, in result order, each   *)
(* with a non-empty departments list: the current job's departments when   *)
(* that list is non-empty and exactly <<"Other">> otherwise.               *)
C11_DepartmentsDefault ==
    last.op = "mapSearch" =>
        LET rs == IF Has(last.response, "results") THEN last.response.results ELSE <<>>
        IN  /\ Len(last.ret) = Len(rs)
            /\ \A i \in 1..Len(rs) :
                  /\ last.ret[i].id = rs[i].person.person_id
                  /\ last.ret[i].departments # <<>>
                  /\ last.ret[i].departments =
                        IF CurrentDepartments(rs[i].person) # <<>>
                        THEN CurrentDepartments(rs[i].person) ELSE <<"Other">>

(* A person whose only job with departments is not the current one is      *)
(* filed under Other, next to a person filed under the current job's       *)
(* departments.                                                            *)
C11_Witness ==
    /\ last.op = "mapSearch"
    /\ Len(last.ret) = 2
    /\ last.response.results[1].person = PersonC
    /\ last.ret[1].departments = <<"Other">>
    /\ last.response.results[2].person = PersonA
    /\ last.ret[2].departments = <<"Sales", "Marketing">>

(* C12: the enrichment mapper returns no data exactly when the response    *)
(* has no non-empty person.email.email, whatever else it holds; otherwise  *)
(* the record's person email is the response's email; both copies agree.   *)
C12_NoEmailNoData ==
    last.op = "mapEnrich" =>
        LET r == last.response
            noEmail == \/ ~Has(r, "person")
                       \/ ~Has(r.person, "email")
                       \/ ~Has(r.person.email, "email")
                       \/ Len(r.person.email.email) = 0
        IN  /\ (last.ret = <<>>) <=> noEmail
            /\ (last.retForm = <<>>) <=> noEmail
            /\ ~noEmail =>
                  /\ last.ret[1].person.email.email = r.person.email.email
                  /\ last.retForm[1].person.email.email = r.person.email.email

(* A reply with a full company but an empty email string maps to no data   *)
(* in both copies.                                                         *)
C12_Witness ==
    /\ last.op = "mapEnrich"
    /\ Has(last.response, "company") /\ Has(last.response.company, "industry")
    /\ Has(last.response, "person") /\ Has(last.response.person, "email")
    /\ Has(last.response.person.email, "email")
    /\ last.response.person.email.email = <<>>
    /\ last.ret = <<>>
    /\ last.retForm = <<>>

(* C13: for a response with an email, the mapped company's name, website   *)
(* and domain are the response's values when it supplies them, otherwise   *)
(* the input domain, "https://" followed by it, and the input domain; none *)
(* of the three is empty when the input domain is not.                     *)
C13_CompanyFallback ==
    last.op = "mapEnrich" =>
        \A ret \in {last.ret, last.retForm} :
            ret # <<>> =>
                LET r == last.response
                    supplied(k) == /\ Has(r, "company") /\ Has(r.company, k)
                                   /\ Len(r.company[k]) > 0
                    c == ret[1].company
                IN  /\ c.name = IF supplied("name") THEN r.company.name ELSE last.domain
                    /\ c.website = IF supplied("website") THEN r.company.website
                                   ELSE <<"h", "t", "t", "p", "s", ":", "/", "/">> \o last.domain
                    /\ c.domain = IF supplied("domain") THEN r.company.domain ELSE last.domain
                    /\ last.domain # <<>> => c.name # <<>> /\ c.website # <<>> /\ c.domain # <<>>

(* Domain acme.com and a response with an email but no company object map  *)
(* to company name acme.com and website https://acme.com.                  *)
C13_Witness ==
    /\ last.op = "mapEnrich"
    /\ last.domain = <<"a", "c", "m", "e", ".", "c", "o", "m">>
    /\ ~Has(last.response, "company")
    /\ last.ret # <<>>
    /\ last.ret[1].company.name = <<"a", "c", "m", "e", ".", "c", "o", "m">>
    /\ last.ret[1].company.website =
          <<"h", "t", "t", "p", "s", ":", "/", "/", "a", "c", "m", "e", ".", "c", "o", "m">>

(* The classification C14 states, for the server's reply of last.          *)
ClassifiedAsStated ==
    LET reply == last.reply
        body == IF Has(reply, "body") THEN reply.body ELSE <<>>
        insufficient == /\ reply.status = 402
                        /\ Has(body, "error_code")
                        /\ body.error_code = "INSUFFICIENT_CREDITS"
        failure == \/ reply.status < 200
                   \/ reply.status > 299
                   \/ (Has(body, "error") /\ body.error)
        placeholder == IF last.op = "searchPerson"
                       THEN <<"Failed to search people">> ELSE <<"Failed to enrich person">>
    IN  IF insufficient
        THEN ~last.ret.ok /\ NumStr(body.balance) \in Range(last.ret.message)
        ELSE IF failure
        THEN /\ ~last.ret.ok
             /\ last.ret.message = IF Has(body, "message") /\ Len(body.message) > 0
                                   THEN body.message ELSE placeholder
        ELSE last.ret.ok /\ last.ret.data = body

(* C14: searchPerson and enrichPerson fail on 402 with INSUFFICIENT_CREDITS *)
(* with a message containing the balance, fail on any other non-success or *)
(* error-flagged reply with the server's message or else the fixed         *)
(* placeholder, and return only an unflagged success reply as data.        *)
C14_ReplyClassified ==
    (last.op \in {"searchPerson", "enrichPerson"} /\ last.reply.kind = "http") =>
        ClassifiedAsStated

(* The same over the replies whose body parses as JSON. *)
C14_ParsedReplyClassified ==
    (/\ last.op \in {"searchPerson", "enrichPerson"}
     /\ last.reply.kind = "http"
     /\ Has(last.reply, "body")) =>
        ClassifiedAsStated

(* C15: searchCompanyByName never fails; a query shorter than 2 after      *)
(* trimming gives the empty sequence without a remote call, and a call     *)
(* that meets a transport failure, a non-success status, an unparsable     *)
(* body or a body that is not {status: "success", data: [...]} gives the   *)
(* empty sequence.                                                         *)
C15_CompanySearchNeverFails ==
    last.op = "searchCompanyByName" =>
        LET reply == last.reply
            short == Len(TrimEnd(TrimStart(last.query))) < 2
            unusable ==
                \/ reply.kind = "transport"
                \/ reply.status < 200 \/ reply.status > 299
                \/ ~Has(reply, "body")
                \/ ~Has(reply.body, "status") \/ reply.body.status # "success"
                \/ ~Has(reply.body, "data") \/ ~reply.body.data.isArray
        IN  /\ ~last.ret.failed
            /\ last.ret.called <=> ~short
            /\ short => last.ret.value = <<>>
            /\ (~short /\ unusable) => last.ret.value = <<>>

(* A call is issued for a two-letter query padded with blanks and answered *)
(* with a body that does not parse.                                        *)
C15_Witness ==
    /\ last.op = "searchCompanyByName"
    /\ last.query = <<" ", "a", "c", " ">>
    /\ last.reply = [kind |-> "http", status |-> 200]
    /\ last.ret.called
    /\ last.ret.value = <<>>

-----------------------------------------------------------------------------
(* Properties of the lookup screens *)

(* C16: a completed email lookup adds exactly one entry to the email log:  *)
(* after a failure (an enrichPerson error, or a reply without an email,    *)
(* which fails with "No email found for this person") an entry with status *)
(* error, the failure message and no enriched data; after a success an     *)
(* entry with status success, the email and the enriched data.             *)
C16_LookupRecorded ==
    last.op = "lookup" =>
        LET log == loadSearchHistory
            e == log[1]
            reply == last.reply
            rejected == \/ reply.kind = "transport"
                        \/ ~Has(reply, "body")
                        \/ reply.status < 200 \/ reply.status > 299
                        \/ (Has(reply.body, "error") /\ reply.body.error)
            noEmail == \/ ~Has(reply.body, "person")
                       \/ ~Has(reply.body.person, "email")
                       \/ ~Has(reply.body.person.email, "email")
                       \/ Len(reply.body.person.email.email) = 0
        IN  /\ Len(log) = Len(last.before) + 1
            /\ Tail(log) = last.before
            /\ e.firstName = last.call.firstName
            /\ e.domain = last.call.domain
            /\ IF rejected \/ noEmail
               THEN /\ e.status = "error"
                    /\ Has(e, "error")
                    /\ e.error = last.message
                    /\ (~rejected) => e.error = <<"No email found for this person">>
                    /\ ~Has(e, "enrichedData")
                    /\ ~Has(e, "email")
               ELSE /\ e.status = "success"
                    /\ ~Has(e, "error")
                    /\ e.email = reply.body.person.email.email
                    /\ Has(e, "enrichedData")
                    /\ e.enrichedData.person.email.email = e.email

(* A lookup answered with a success reply that has a person but no email   *)
(* left an error entry with the fixed message on top of the earlier log.   *)
C16_Witness ==
    /\ last.op = "lookup"
    /\ last.reply.kind = "http" /\ last.reply.status = 200
    /\ Has(last.reply.body, "person") /\ ~Has(last.reply.body, "error")
    /\ Len(last.before) = 2
    /\ Len(loadSearchHistory) = 3
    /\ loadSearchHistory[1].status = "error"
    /\ loadSearchHistory[1].error = <<"No email found for this person">>

-----------------------------------------------------------------------------
(* Frame properties of the history cache *)

(* The entries of L at the positions in keep, in their order. *)
Kept(L, keep) ==
    [j \in 1..Cardinality(keep) |->
        L[CHOOSE i \in keep : Cardinality({k \in keep : k < i}) = j - 1]]

(* C17: remove(id) stores the log without the entries whose id is the      *)
(* given one, the others unchanged and in their order; with no such entry  *)
(* the stored entries are those of before.                                 *)
C17_RemoveFilters ==
    last.op = "remove" =>
        LET L == last.before
            after == loadHistory(last.key)
            keep == {i \in 1..Len(L) : L[i].id # last.id}
        IN  /\ after = Kept(L, keep)
            /\ (\A i \in 1..Len(L) : L[i].id # last.id) => after = L

(* The older of two entries was removed and the newer one is what is left. *)
C17_Witness ==
    /\ last.op = "remove"
    /\ Len(last.before) = 2
    /\ last.before[2].id = last.id
    /\ loadHistory(last.key) = <<last.before[1]>>

(* C18: update(id, partial) replaces, in the entry with that id, exactly   *)
(* the fields the partial names (a field given as undefined reads as       *)
(* undefined afterwards) and leaves its other fields, the other entries    *)
(* and the log's length and order as they were; with no such entry the     *)
(* stored entries are those of before.                                     *)
C18_UpdateMerges ==
    last.op = "update" =>
        LET L == last.before
            after == loadCompanySearchHistory
            u == last.updates
        IN  /\ Len(after) = Len(L)
            /\ \A i \in 1..Len(L) :
                  IF L[i].id = last.id
                  THEN /\ \A k \in DOMAIN u :
                            IF k \in DOMAIN after[i] THEN after[i][k] = u[k]
                            ELSE u[k] = "undefined"
                       /\ \A k \in (DOMAIN L[i]) \ (DOMAIN u) :
                            k \in DOMAIN after[i] /\ after[i][k] = L[i][k]
                       /\ (DOMAIN after[i]) \subseteq (DOMAIN L[i]) \cup (DOMAIN u)
                       /\ after[i].id = L[i].id
                       /\ after[i].type = L[i].type
                       /\ after[i].createdAt = L[i].createdAt
                  ELSE after[i] = L[i]
            /\ (\A i \in 1..Len(L) : L[i].id # last.id) => after = L

(* The older of two company entries received a new employee snapshot and   *)
(* page counter; the newer entry is as before.                             *)
C18_Witness ==
    /\ last.op = "update"
    /\ Len(last.before) = 2
    /\ last.before[2].id = last.id
    /\ last.updates = [employees |-> <<"a", "b", "c">>, currentPage |-> 2]
    /\ loadCompanySearchHistory[2].employees = <<"a", "b", "c">>
    /\ loadCompanySearchHistory[2].companyName = last.before[2].companyName
    /\ last.before[2].employees # <<"a", "b", "c">>
    /\ loadCompanySearchHistory[1] = last.before[1]

(* C19: add, remove, update and clear on one log leave the other log's     *)
(* stored item as it was, and after clear a load of the cleared log        *)
(* returns the empty sequence.                                             *)
C19_LogsIndependent ==
    [][\A key \in Keys :
        (/\ last'.op \in {"add", "remove", "update", "clear"}
         /\ last'.key = key
         /\ nops' = nops + 1) =>
            /\ \A other \in Keys \ {key} :
                  /\ store'[other] = store[other]
                  /\ parseHistory(store'[other]) = parseHistory(store[other])
            /\ last'.op = "clear" => parseHistory(store'[key]) = <<>>]_vars

(* The email log of two entries was cleared and the company log still      *)
(* holds its two entries.                                                  *)
C19_Witness ==
    /\ last.op = "clear"
    /\ last.key = STORAGE_KEY
    /\ last.before = 2
    /\ loadSearchHistory = <<>>
    /\ Len(loadCompanySearchHistory) = 2

(* The stored item of a log is a log the program wrote. *)
IsLog(key) == store[key].kind = "json"

(* C20: stored history data that is missing or corrupt is treated as an    *)
(* empty log: add, remove, update and loadAll complete without failing,    *)
(* and an add on it leaves a log of exactly the one new entry.             *)
C20_CorruptIsEmpty ==
    /\ last.op \in {"add", "remove", "update", "loadAll"} => ~Has(last, "failed")
    /\ (last.op = "add" /\ Has(last, "before") /\ last.before = 0) =>
          /\ IsLog(last.key)
          /\ loadHistory(last.key) = <<stringifyEntry(last.ret)>>

(* The same over the operations that met only missing items and texts that *)
(* do not parse.                                                           *)
C20_UnparsableIsEmpty ==
    (\A key \in Keys : ~Throws(key)) =>
        /\ \A key \in Keys : ~IsLog(key) => loadHistory(key) = <<>>
        /\ last.op \in {"add", "remove", "update", "loadAll"} => ~Has(last, "failed")
        /\ (last.op = "add" /\ last.before = 0) =>
              loadHistory(last.key) = <<stringifyEntry(last.ret)>>
        /\ (last.op = "loadAll" /\ \A key \in Keys : ~IsLog(key)) => last.ret = <<>>

-----------------------------------------------------------------------------
(* Properties of the screens' history writes, requests and balances        *)

(* The calls of a screen that wait for addCompanySearchHistoryEntry. *)
Saving(cs) == {i \in 1..Len(cs) : cs[i].stage = "save"}

(* C21: a company-search history entry is added exactly when a fresh       *)
(* search (page 1) succeeds with at least one employee.  A search that     *)
(* succeeds with no employee adds no entry, starts no balance re-fetch and *)
(* leaves the screen searched, not loading, with no employee and no group. *)
(* A load-more never adds a company history entry.                         *)
C21_HistoryOnResults ==
    [][LET log == parseHistory(store[COMPANY_STORAGE_KEY])
           logAfter == parseHistory(store'[COMPANY_STORAGE_KEY])
           searched == last'.op = "searchResponded" /\ calls' # calls
           loadedMore == last'.op = "loadMoreResponded" /\ calls' # calls
           found == IF last'.ok THEN mapSearchResponseToEmployees(last'.response)
                    ELSE <<>>
       IN  /\ store' # store =>
                 /\ \E i \in Saving(calls) :
                       /\ calls' = RemoveAt(calls, i)
                       /\ Len(calls[i].entry.employees) > 0
                 /\ store'[STORAGE_KEY] = store[STORAGE_KEY]
           /\ Cardinality(Saving(calls')) < Cardinality(Saving(calls)) =>
                 /\ Len(logAfter) = Len(log) + 1
                 /\ Tail(logAfter) = log
                 /\ logAfter[1].employees # <<>>
           /\ Cardinality(Saving(calls')) > Cardinality(Saving(calls)) =>
                 /\ searched
                 /\ last'.ok
                 /\ Len(found) > 0
                 /\ \E i \in 1..Len(calls) :
                       /\ calls[i].fn = "searchCompany"
                       /\ calls[i].page = FirstPage
                       /\ calls'[i].stage = "save"
           /\ (searched /\ last'.ok /\ Len(found) > 0) =>
                 /\ Saving(calls') # {}
                 /\ store' = store
           /\ (searched /\ last'.ok /\ Len(found) = 0) =>
                 /\ store' = store
                 /\ Saving(calls') = {}
                 /\ fetches' = fetches
                 /\ hasSearched'
                 /\ ~isLoading'
                 /\ employees' = <<>>
                 /\ groupByDepartment(employees') = <<>>
           /\ (searched /\ ~last'.ok) =>
                 /\ store' = store
                 /\ Saving(calls') = {}
           /\ loadedMore =>
                 /\ store' = store
                 /\ Saving(calls') = {}]_vars

(* A fresh search has succeeded with no employee: the company log still    *)
(* holds its two entries and the screen is searched, idle and empty.       *)
C21_Witness ==
    /\ last.op = "searchResponded"
    /\ last.ok
    /\ mapSearchResponseToEmployees(last.response) = <<>>
    /\ calls = <<>>
    /\ hasSearched
    /\ ~isLoading
    /\ employees = <<>>
    /\ Len(loadCompanySearchHistory) = 2

(* C22: remote calls are single-flight per screen: no screen has two       *)
(* person-search or two enrichment requests outstanding at once, whatever  *)
(* is submitted or clicked while a request is in flight.                   *)
C22_SingleFlight ==
    /\ Cardinality({i \in 1..Len(calls) : calls[i].stage = "fetch"}) <= 1
    /\ view.screen # "none" => Len(view.pending) <= 1

(* C23: when a screen is torn down while its request is in flight, the     *)
(* completion of that request changes none of the screen's state and       *)
(* writes nothing to the email or company history logs.                    *)
C23_TeardownSilences ==
    [][(view.screen # "none" /\ view.gone /\ Len(view'.pending) < Len(view.pending)) =>
          /\ store' = store
          /\ view'.isLoading = view.isLoading
          /\ view'.error = view.error
          /\ view'.credits = view.credits
          /\ view'.enrichedData = view.enrichedData]_vars

(* C24: a balance carried by a lookup response takes precedence over a     *)
(* standalone balance fetch: once the screen has applied the balance of a  *)
(* search or enrichment response, the displayed balance is not overwritten *)
(* by the outcome of a fetchCredits call issued before that response.      *)
(* (No fetch is issued after a successful response: while such a response  *)
(* is the last one, every pending fetch is older than it.)                 *)
C24_ResponseBalanceWins ==
    /\ (/\ last.op \in {"searchResponded", "loadMoreResponded"}
         /\ last.ok
         /\ Has(last.response, "balance")) => credits = <<last.response.balance>>
    /\ (/\ view.screen # "none" /\ ~view.gone
         /\ last.op = "lookup"
         /\ last.ok
         /\ Has(last.reply.body, "balance")) => view.credits = <<last.reply.body.balance>>

(* The balances a fetchCredits() call can deliver. *)
Fetched == {<<n>> : n \in Balances}

C27_UniqueIds ==
    \A i, j \in 1..Len(employees) : employees[i].id = employees[j].id => i = j

(* C28: an enriched-employee view that stays on screen eventually leaves   *)
(* the loading state and shows the enriched data or an error, its request  *)
(* being answered; also when the host runs the view's mount effect twice   *)
(* (mount, cleanup, mount again).                                          *)
C28_EventuallyShown ==
    (view.screen = "enriched" /\ view.mounted)
        ~> \/ view.gone
           \/ ~view.isLoading /\ (view.enrichedData # <<>> \/ view.error # <<>>)

(* C30: after a successful lookup from the email form, the results view    *)
(* that is pushed displays the balance carried by that enrichment response *)
(* and not the balance the form held when the lookup was submitted.        *)
C30_PushedShowsResponseBalance ==
    (/\ view.screen = "form"
     /\ last.op = "lookup"
     /\ last.ok
     /\ Has(last.reply.body, "balance")) =>
        /\ view.pushed # <<>>
        /\ view.pushed[1].credits = <<last.reply.body.balance>>

====
